---------------------------- MODULE Spec2Model ----------------------------
(***************************************************************************)
(* Signal Aggregation & Scoring Engine of the workability server:          *)
(*   aggregateSignals, generateMockProfile, createWorkabilityProfile,      *)
(*   the two scoreCandidate rubrics, buildMockAnalysis and the             *)
(*   GET /api/analyze/:username route.                                     *)
(***************************************************************************)
EXTENDS Integers, Sequences, FiniteSets, TLC

(***************************************************************************)
(* Generic helpers                                                         *)
(***************************************************************************)
Range(s) == {s[i] : i \in 1..Len(s)}

Min2(a, b) == IF a <= b THEN a ELSE b

Max2(a, b) == IF a >= b THEN a ELSE b

RECURSIVE SumSeq(_)
SumSeq(s) == IF s = <<>> THEN 0 ELSE Head(s) + SumSeq(Tail(s))

RECURSIVE FlattenSeq(_)
FlattenSeq(ss) == IF ss = <<>> THEN <<>> ELSE Head(ss) \o FlattenSeq(Tail(ss))

Take(s, n) == SubSeq(s, 1, Min2(n, Len(s)))

Pow2(n) == 2^n

(***************************************************************************)
(* IEEE-754 binary64 arithmetic of JavaScript numbers.  A positive double  *)
(* is [m, e]: m its significand, a natural number of exactly MantBits      *)
(* bits, and e the exponent of its last bit, value m * 2^e.  Natural       *)
(* numbers of any size are sequences of digits in base 2^LimbBits, lowest  *)
(* digit first, without leading zero digits (0 is the empty sequence).     *)
(***************************************************************************)
MantBits == 53

LimbBits == 14

Base == Pow2(LimbBits)

Zeros(n) == [i \in 1..n |-> 0]

RECURSIVE BigOf(_)
BigOf(n) == IF n = 0 THEN <<>> ELSE <<n % Base>> \o BigOf(n \div Base)

\* the value of a number that fits an integer of the model
RECURSIVE BigToNat(_)
BigToNat(a) == IF a = <<>> THEN 0 ELSE Head(a) + Base * BigToNat(Tail(a))

\* a without its leading zero digits
RECURSIVE Normal(_)
Normal(a) ==
  IF a = <<>> THEN <<>>
  ELSE IF a[Len(a)] # 0 THEN a
  ELSE Normal(SubSeq(a, 1, Len(a) - 1))

Limb(a, i) == IF i \in 1..Len(a) THEN a[i] ELSE 0

\* the digits i, i + 1, ... of a + b + c
RECURSIVE AddFrom(_, _, _, _)
AddFrom(a, b, i, c) ==
  IF i > Max2(Len(a), Len(b)) THEN BigOf(c)
  ELSE LET v == Limb(a, i) + Limb(b, i) + c
       IN  <<v % Base>> \o AddFrom(a, b, i + 1, v \div Base)

BigAdd(a, b) == AddFrom(a, b, 1, 0)

\* the sum of the digit products that fall on digit k of a * b
RECURSIVE ColumnFrom(_, _, _, _)
ColumnFrom(a, b, k, i) ==
  IF i > Min2(Len(a), k) THEN 0
  ELSE a[i] * b[k + 1 - i] + ColumnFrom(a, b, k, i + 1)

Column(a, b, k) == ColumnFrom(a, b, k, Max2(1, k + 1 - Len(b)))

RECURSIVE MulFrom(_, _, _, _)
MulFrom(a, b, k, c) ==
  IF k > Len(a) + Len(b) - 1 THEN BigOf(c)
  ELSE LET v == Column(a, b, k) + c
       IN  <<v % Base>> \o MulFrom(a, b, k + 1, v \div Base)

BigMul(a, b) == IF a = <<>> \/ b = <<>> THEN <<>> ELSE MulFrom(a, b, 1, 0)

\* a * 2^k
BigShl(a, k) ==
  LET up == Pow2(k % LimbBits)
  IN  Zeros(k \div LimbBits)
        \o Normal([i \in 1..(Len(a) + 1) |->
                     ((Limb(a, i) * up) % Base) + ((Limb(a, i - 1) * up) \div Base)])

\* a \div 2^k
BigShr(a, k) ==
  LET q    == k \div LimbBits
      low  == Pow2(k % LimbBits)
      up   == Base \div low
      high == SubSeq(a, q + 1, Len(a))
  IN  Normal([i \in 1..Len(high) |->
                (high[i] \div low) + (Limb(high, i + 1) % low) * up])

\* bit i of a, bit 0 the lowest
BigBit(a, i) == (Limb(a, i \div LimbBits + 1) \div Pow2(i % LimbBits)) % 2

\* a is a multiple of 2^k
BigLowZero(a, k) ==
  /\ \A i \in 1..(k \div LimbBits) : Limb(a, i) = 0
  /\ Limb(a, k \div LimbBits + 1) % Pow2(k % LimbBits) = 0

RECURSIVE BitLen(_)
BitLen(n) == IF n = 0 THEN 0 ELSE 1 + BitLen(n \div 2)

BigBitLen(a) ==
  IF a = <<>> THEN 0 ELSE LimbBits * (Len(a) - 1) + BitLen(a[Len(a)])

\* a < b
BigLess(a, b) ==
  IF Len(a) # Len(b) THEN Len(a) < Len(b)
  ELSE \E i \in 1..Len(a) :
          a[i] < b[i] /\ \A j \in (i + 1)..Len(a) : a[j] = b[j]

\* round-to-nearest, ties-to-even, of the natural number a * 2^e (a > 0),
\* with sticky = TRUE when a nonzero part was already dropped below the last
\* bit of a
RoundDouble(a, e, sticky) ==
  LET n == BigBitLen(a)
      d == n - MantBits
  IN  IF d <= 0 THEN [m |-> BigShl(a, 0 - d), e |-> e + d]
      ELSE LET keep   == BigShr(a, d)
               guard  == BigBit(a, d - 1)
               low    == sticky \/ ~BigLowZero(a, d - 1)
               up     == guard = 1 /\ (low \/ BigBit(keep, 0) = 1)
               kept   == IF up THEN BigAdd(keep, <<1>>) ELSE keep
           IN  IF BigBitLen(kept) > MantBits
                 THEN [m |-> BigShr(kept, 1), e |-> e + d + 1]
                 ELSE [m |-> kept, e |-> e + d]

\* long division of r / t (0 <= r < t, t * Base within the integers): the
\* first n digits of the quotient after the point, and the remainder left
RECURSIVE DivLimbs(_, _, _)
DivLimbs(r, t, n) ==
  IF n = 0 THEN <<>>
  ELSE DivLimbs((r * Base) % t, t, n - 1) \o <<(r * Base) \div t>>

RECURSIVE DivRem(_, _, _)
DivRem(r, t, n) ==
  IF n = 0 THEN r ELSE DivRem((r * Base) % t, t, n - 1)

RECURSIVE NormShift(_, _)
NormShift(b, t) == IF b >= t THEN 0 ELSE 1 + NormShift(2 * b, t)

RECURSIVE HighShift(_, _)
HighShift(b, t) == IF b < 2 * t THEN 0 ELSE 1 + HighShift(b, 2 * t)

QuotLimbs == 4

\* the double b / t for integers b > 0, t > 0: b / t = (bb / tt) * 2^(j - k)
\* with 1 <= bb / tt < 2
DoubleDiv(b, t) ==
  LET k    == NormShift(b, t)
      j    == HighShift(b, t)
      bb   == b * Pow2(k)
      tt   == t * Pow2(j)
      quot == DivLimbs(bb - tt, tt, QuotLimbs) \o <<1>>
      rem  == DivRem(bb - tt, tt, QuotLimbs)
  IN  RoundDouble(quot, j - k - QuotLimbs * LimbBits, rem # 0)

\* the double d * k for a positive integer k
DoubleMulSmall(d, k) == RoundDouble(BigMul(d.m, BigOf(k)), d.e, FALSE)

\* the double d1 * d2
DoubleMul(d1, d2) == RoundDouble(BigMul(d1.m, d2.m), d1.e + d2.e, FALSE)

RECURSIVE MinExp(_)
MinExp(ds) ==
  IF Len(ds) = 1 THEN ds[1].e ELSE Min2(Head(ds).e, MinExp(Tail(ds)))

\* the exact sum of the doubles of ds, in units of 2^emin
RECURSIVE SumAligned(_, _)
SumAligned(ds, emin) ==
  IF ds = <<>> THEN <<>>
  ELSE BigAdd(BigShl(Head(ds).m, Head(ds).e - emin), SumAligned(Tail(ds), emin))

\* the double d1 + d2
DoubleAdd(d1, d2) ==
  LET emin == Min2(d1.e, d2.e)
  IN  RoundDouble(SumAligned(<<d1, d2>>, emin), emin, FALSE)

\* the doubles of ds (exponents at most 0) sum to more than n, computed exactly
DoubleSumExceeds(ds, n) ==
  IF ds = <<>> THEN FALSE
  ELSE LET emin == MinExp(ds)
       IN  BigLess(BigShl(BigOf(n), 0 - emin), SumAligned(ds, emin))

\* d1 < d2 on positive doubles
DoubleLess(d1, d2) ==
  LET emin == Min2(d1.e, d2.e)
  IN  BigLess(BigShl(d1.m, d1.e - emin), BigShl(d2.m, d2.e - emin))

(***************************************************************************)
(* A JavaScript number is NaN, zero, or a positive double.                 *)
(***************************************************************************)
NaN == [nan |-> TRUE, zero |-> FALSE, m |-> <<>>, e |-> 0]

Zero == [nan |-> FALSE, zero |-> TRUE, m |-> <<>>, e |-> 0]

Pos(d) == [nan |-> FALSE, zero |-> FALSE, m |-> d.m, e |-> d.e]

\* the double of a natural number n < 2^31
Num(n) == IF n = 0 THEN Zero ELSE Pos(RoundDouble(BigOf(n), 0, FALSE))

\* a / b for integers a >= 0, b >= 0, a = 0 when b = 0: 0 / 0 is NaN, the
\* quotient is rounded
NumDiv(a, b) ==
  IF b = 0 THEN NaN
  ELSE IF a = 0 THEN Zero
  ELSE Pos(DoubleDiv(a, b))

\* x * y for non-negative x and y, rounded
NumMul(x, y) ==
  IF x.nan \/ y.nan THEN NaN
  ELSE IF x.zero \/ y.zero THEN Zero
  ELSE Pos(DoubleMul(x, y))

\* x * k for an integer k > 0, rounded
NumTimes(x, k) ==
  IF x.nan THEN NaN
  ELSE IF x.zero THEN Zero
  ELSE Pos(DoubleMulSmall(x, k))

\* x + y for non-negative x and y, rounded
NumPlus(x, y) ==
  IF x.nan \/ y.nan THEN NaN
  ELSE IF x.zero THEN y
  ELSE IF y.zero THEN x
  ELSE Pos(DoubleAdd(x, y))

\* x >= k for an integer k; false for NaN
NumAtLeast(x, k) ==
  /\ ~x.nan
  /\ \/ k <= 0
     \/ ~x.zero /\ ~DoubleLess(x, Num(k))

\* Math.round of a number below 2^31: NaN for NaN, else the nearest integer,
\* halves upwards
MathRound(x) ==
  IF x.nan THEN NaN
  ELSE IF x.zero THEN Zero
  ELSE IF x.e >= 0 THEN x
  ELSE IF MantBits + x.e < 0 THEN Zero
  ELSE Num(BigToNat(BigShr(x.m, 0 - x.e)) + BigBit(x.m, 0 - x.e - 1))

\* the value of an integer-valued number below 2^31
IntOf(x) ==
  IF x.zero THEN 0
  ELSE IF x.e >= 0 THEN BigToNat(BigShl(x.m, x.e))
  ELSE BigToNat(BigShr(x.m, 0 - x.e))


(***************************************************************************)
(* Time.  Timestamps are clock ticks, DayTicks of them in one UTC day; the *)
(* UTC calendar date of a timestamp is its day number.                     *)
(***************************************************************************)
DayTicks == 2

WindowDays == 30

Today == 40

NowSet == {Today * DayTicks, Today * DayTicks + DayTicks - 1}

\* commitDate.toISOString().split("T")[0]
UTCDate(t) == t \div DayTicks

\* thirtyDaysAgo.setDate(thirtyDaysAgo.getDate() - 30)
ThirtyDaysAgo(t) == t - WindowDays * DayTicks

At(day, off) == day * DayTicks + off

(***************************************************************************)
(* Hosting data: repositories, language maps and commit lists              *)
(***************************************************************************)
Missing == 0 - 1

Owner == "owner"

NoAuthor == "none"

TopN == 10

TopShown == 5

CommitsPerPage == 20

PROJECT_TYPE_KEYWORDS ==
  [web     |-> {"web", "site", "app", "frontend", "backend", "server", "api", "http"},
   cli     |-> {"cli", "command", "terminal", "tool"},
   library |-> {"lib", "library", "package", "sdk", "framework"},
   data    |-> {"data", "ml", "machine-learning", "ai", "analytics", "database"},
   mobile  |-> {"mobile", "ios", "android", "react-native", "flutter"},
   devops  |-> {"docker", "kubernetes", "ci", "cd", "deploy", "infrastructure"}]

Commit(day, off, login) == [date |-> At(day, off), author |-> login]

Lang(n, b) == [name |-> n, bytes |-> b]

\* one commit per day on len consecutive days from day d on, late in the day
DailyCommits(d, len) == [i \in 1..len |-> Commit(d + i - 1, DayTicks - 1, Owner)]

\* what the hosting platform holds for the kinds of repository of the model:
\* the repository summary (kws: the keywords of PROJECT_TYPE_KEYWORDS that
\* occur in its lower-cased name and description), its language byte counts
\* in the order the platform lists them, and its latest commits
RepoKinds ==
  << [stargazers_count |-> 3, forks_count |-> 1, kws |-> {"api"},
      language |-> "JavaScript", pushed_at |-> At(Today - 1, 0),
      langs |-> <<Lang("JavaScript", 9), Lang("Python", 2)>>,
      commits |-> DailyCommits(Today - WindowDays, CommitsPerPage)],
     [stargazers_count |-> Missing, forks_count |-> 2, kws |-> {"data", "cli"},
      language |-> "Python", pushed_at |-> At(Today - WindowDays, 0),
      langs |-> <<Lang("Python", 4), Lang("Go", 4)>>,
      commits |-> DailyCommits(Today - WindowDays + CommitsPerPage,
                               WindowDays + 1 - CommitsPerPage)],
     [stargazers_count |-> 60, forks_count |-> 4, kws |-> {"lib", "library"},
      language |-> "Rust", pushed_at |-> At(Today - WindowDays - 1, 1),
      langs |-> <<Lang("Rust", 1), Lang("Go", 2)>>,
      commits |-> << Commit(Today - WindowDays - 1, DayTicks - 1, "other"),
                     Commit(Today - WindowDays, 0, Owner),
                     Commit(Today - WindowDays, DayTicks - 1, NoAuthor) >>],
     [stargazers_count |-> 3, forks_count |-> 8, kws |-> {"docker"},
      language |-> "none", pushed_at |-> At(Today, 0),
      langs |-> <<>>,
      commits |-> << Commit(Today - 1, 0, Owner), Commit(Today - 1, 1, Owner),
                     Commit(Today + 1, 0, Owner) >>] >>

NumKinds == Len(RepoKinds)

\* the repository summary listed for the i-th repository, of kind k
RepoOf(k, i) ==
  [name |-> i,
   stargazers_count |-> RepoKinds[k].stargazers_count,
   forks_count |-> RepoKinds[k].forks_count,
   kws |-> RepoKinds[k].kws,
   language |-> RepoKinds[k].language,
   pushed_at |-> RepoKinds[k].pushed_at]

ReposOf(kinds) == [i \in 1..Len(kinds) |-> RepoOf(kinds[i], i)]

UpstreamOf(kinds) ==
  [i \in 1..Len(kinds) |->
     [langs |-> RepoKinds[kinds[i]].langs, commits |-> RepoKinds[kinds[i]].commits]]

(***************************************************************************)
(* services/github: the per-repository fetchers                            *)
(***************************************************************************)
Pending == [failed |-> FALSE, status |-> "pending", value |-> <<>>]

\* fetchRepoLanguages: res.data on success, {} on any error
fetchRepoLanguages(http, data) ==
  IF http = "ok"
    THEN [failed |-> FALSE, status |-> "fulfilled", value |-> data]
    ELSE [failed |-> TRUE, status |-> "fulfilled", value |-> <<>>]

\* fetchRepoCommits: res.data on success, [] on 403, 409 and any other error
fetchRepoCommits(http, data) ==
  IF http = "ok"
    THEN [failed |-> FALSE, status |-> "fulfilled", value |-> data]
    ELSE [failed |-> TRUE, status |-> "fulfilled", value |-> <<>>]

HttpOutcomes == {"ok", "error"}

CommitHttpOutcomes == {"ok", "403", "409", "error"}

(***************************************************************************)
(* services/signals: aggregateSignals                                      *)
(***************************************************************************)
\* repo.stargazers_count || 0
StarsOf(repo) ==
  IF repo.stargazers_count = Missing THEN 0 ELSE repo.stargazers_count

ForksOf(repo) == IF repo.forks_count = Missing THEN 0 ELSE repo.forks_count

\* as InsertByStars, with r put ahead of the repositories with equal stars
InsertByStars_TiesReversed(sorted, r) ==
  LET ahead == {i \in 1..Len(sorted) : StarsOf(sorted[i]) > StarsOf(r)}
      k     == Cardinality(ahead)
  IN  SubSeq(sorted, 1, k) \o <<r>> \o SubSeq(sorted, k + 1, Len(sorted))

\* r put behind every repository of the sorted list that has at least r's stars
InsertByStars(sorted, r) ==
  LET ahead == {i \in 1..Len(sorted) : StarsOf(sorted[i]) >= StarsOf(r)}
      k     == Cardinality(ahead)
  IN  SubSeq(sorted, 1, k) \o <<r>> \o SubSeq(sorted, k + 1, Len(sorted))

\* repos.slice().sort((a, b) => b.stars - a.stars): stable, descending
RECURSIVE SortByStars(_)
SortByStars(rs) ==
  IF rs = <<>> THEN <<>>
  ELSE InsertByStars(SortByStars(SubSeq(rs, 1, Len(rs) - 1)), rs[Len(rs)])

\* as TopRepos, without the sort: the first ten repositories as listed
TopRepos_Unsorted(rs) == Take(rs, TopN)

TopRepos(rs) == Take(SortByStars(rs), TopN)

\* the types with a keyword in the repository's name and description
TypesOf(repo) ==
  {t \in DOMAIN PROJECT_TYPE_KEYWORDS : PROJECT_TYPE_KEYWORDS[t] \cap repo.kws # {}}

\* the loop over topRepos: star and fork totals and project types
BasicSignals(top) ==
  [starsTotal   |-> SumSeq([i \in 1..Len(top) |-> StarsOf(top[i])]),
   forksTotal   |-> SumSeq([i \in 1..Len(top) |-> ForksOf(top[i])]),
   projectTypes |-> UNION {TypesOf(top[i]) : i \in 1..Len(top)}]

\* as RepoData, but one failed fetch empties both results of the repository
\* (Promise.all with a catch in place of Promise.allSettled)
RepoData_AllOrNothing(languagesRes, commitsRes) ==
  IF languagesRes.failed \/ commitsRes.failed
    THEN [languages |-> <<>>, commits |-> <<>>]
    ELSE [languages |-> languagesRes.value, commits |-> commitsRes.value]

\* what one repoDataPromise resolves to, from its two settled fetches
RepoData(languagesRes, commitsRes) ==
  [languages |-> IF languagesRes.status = "fulfilled"
                   THEN languagesRes.value ELSE <<>>,
   commits   |-> IF commitsRes.status = "fulfilled"
                   THEN commitsRes.value ELSE <<>>]

\* languageTotals[lang] = (languageTotals[lang] || 0) + bytes, keys kept in
\* insertion order
AddLanguage(totals, l) ==
  IF \E i \in 1..Len(totals) : totals[i].name = l.name
    THEN [i \in 1..Len(totals) |->
            IF totals[i].name = l.name
              THEN Lang(l.name, totals[i].bytes + l.bytes)
              ELSE totals[i]]
    ELSE Append(totals, l)

RECURSIVE AddLanguages(_, _)
AddLanguages(totals, ls) ==
  IF ls = <<>> THEN totals
  ELSE AddLanguages(AddLanguage(totals, Head(ls)), Tail(ls))

LanguageTotals(items) ==
  AddLanguages(<<>>, FlattenSeq([i \in 1..Len(items) |-> items[i].languages]))

\* the commits counted: commitDate >= thirtyDaysAgo
InWindow(t, nowT) == t >= ThirtyDaysAgo(nowT)

RecentCommits(commits, nowT) == SelectSeq(commits, LAMBDA c : InWindow(c.date, nowT))

\* commit.author && commit.author.login !== user.login
IsForeign(c, login) == c.author # NoAuthor /\ c.author # login

\* as CollaborationHint, with the flag assigned from every commit, so that the
\* last commit decides
CollaborationHint_LastWins(commits, login, hint) ==
  IF commits = <<>> THEN hint ELSE IsForeign(commits[Len(commits)], login)

\* the loop over the commits: collaborationHint = true on a foreign commit,
\* left as it is otherwise
CollaborationHint(commits, login, hint) ==
  IF \E i \in 1..Len(commits) : IsForeign(commits[i], login) THEN TRUE ELSE hint

\* (bytes / totalBytes) * 100
Percentage(bytes, totalBytes) == DoubleMulSmall(DoubleDiv(bytes, totalBytes), 100)

\* as InsertByPercentage, with the comparison reversed (a.percentage - b.percentage)
InsertByPercentage_Ascending(sorted, p) ==
  LET ahead == {i \in 1..Len(sorted) :
                  ~DoubleLess(p.percentage, sorted[i].percentage)}
      k     == Cardinality(ahead)
  IN  SubSeq(sorted, 1, k) \o <<p>> \o SubSeq(sorted, k + 1, Len(sorted))

\* p put behind every entry of the sorted list that is not smaller than p
InsertByPercentage(sorted, p) ==
  LET ahead == {i \in 1..Len(sorted) :
                  ~DoubleLess(sorted[i].percentage, p.percentage)}
      k     == Cardinality(ahead)
  IN  SubSeq(sorted, 1, k) \o <<p>> \o SubSeq(sorted, k + 1, Len(sorted))

\* .sort((a, b) => b.percentage - a.percentage): stable, descending
RECURSIVE SortByPercentage(_)
SortByPercentage(ps) ==
  IF ps = <<>> THEN <<>>
  ELSE InsertByPercentage(SortByPercentage(SubSeq(ps, 1, Len(ps) - 1)),
                          ps[Len(ps)])

TotalBytes(totals) == SumSeq([i \in 1..Len(totals) |-> totals[i].bytes])

PrimaryLanguages(totals) ==
  LET totalBytes == TotalBytes(totals)
  IN  IF totalBytes > 0
        THEN Take(SortByPercentage(
                    [i \in 1..Len(totals) |->
                       [name |-> totals[i].name,
                        percentage |-> Percentage(totals[i].bytes, totalBytes)]]),
                  3)
        ELSE <<>>

\* Math.floor((Date.now() - accountCreated) / (1000 * 60 * 60 * 24))
AccountAgeDays(created, nowT) == (nowT - created) \div DayTicks

TopReposOut(top, nowT) ==
  [i \in 1..Min2(TopShown, Len(top)) |->
     [name |-> top[i].name,
      stars |-> StarsOf(top[i]),
      language |-> top[i].language,
      recent_activity |-> InWindow(top[i].pushed_at, nowT)]]

\* the aggregation loop over resolvedRepoData and the returned record
Aggregate(usr, rs, top, basic, items, nowT) ==
  LET commits == FlattenSeq([i \in 1..Len(items) |-> items[i].commits])
      recent  == RecentCommits(commits, nowT)
  IN  [primary_languages      |-> PrimaryLanguages(LanguageTotals(items)),
       repo_count             |-> Len(rs),
       stars_total            |-> basic.starsTotal,
       forks_total            |-> basic.forksTotal,
       recent_commit_velocity |-> Len(recent),
       active_days            |-> Cardinality({UTCDate(c.date) : c \in Range(recent)}),
       project_types          |-> basic.projectTypes,
       collaboration_hint     |-> CollaborationHint(commits, usr.login, FALSE),
       account_age_days       |-> AccountAgeDays(usr.created_at, nowT),
       top_repos              |-> TopReposOut(top, nowT)]


\* what a call of the deterministic strategy could read besides its argument
VARIABLES
  mkClock,     \* the clock
  mkSeed,      \* the state of the random source
  mkCalls,     \* the calls made so far
  mkLog,       \* the calls of generateMockProfile: argument and result
  mkStyleLog   \* the calls of buildMockAnalysis: argument and result

(***************************************************************************)
(* services/signals: generateMockProfile.  A template string is the tuple  *)
(* of its fixed text and the values interpolated into it.                  *)
(***************************************************************************)
Includes(seq, x) == \E i \in 1..Len(seq) : seq[i] = x

Skill(s, c) == [skill |-> s, confidence |-> c]

\* lines 175-191
MockSkills(sig) ==
  [i \in 1..Len(sig.primary_languages) |->
     Skill(sig.primary_languages[i].name,
           IF i = 1 THEN "High" ELSE IF i = 2 THEN "Med" ELSE "Low")]
  \o (IF "web" \in sig.project_types
        THEN <<Skill("Web Development", "High")>> ELSE <<>>)
  \o (IF "data" \in sig.project_types
        THEN <<Skill("Data Analysis", "Med")>> ELSE <<>>)
  \o (IF sig.collaboration_hint
        THEN <<Skill("Team Collaboration", "Med")>> ELSE <<>>)
  \o <<Skill("Version Control (Git)", "High")>>

ActiveMaintained(sig) ==
  Cardinality({i \in 1..Len(sig.top_repos) : sig.top_repos[i].recent_activity})

\* a template string: its fixed text, the numbers and the strings put into it
Text(text, nums, strs) == [text |-> text, nums |-> nums, strs |-> strs]

\* lines 193-213
MockEvidence(sig) ==
  << Text("Maintains %n public repositories with %n total stars",
          <<sig.repo_count, sig.stars_total>>, <<>>),
     IF sig.top_repos # <<>>
       THEN Text("Primary project: %n (%n stars, %s)",
                 <<sig.top_repos[1].name, sig.top_repos[1].stars>>,
                 <<sig.top_repos[1].language>>)
       ELSE Text("Active repository management", <<>>, <<>>),
     Text("%n commits in last 30 days across %n active days",
          <<sig.recent_commit_velocity, sig.active_days>>, <<>>),
     IF sig.collaboration_hint
       THEN Text("Demonstrated collaboration through team repos", <<>>, <<>>)
       ELSE Text("Strong project ownership and solo development", <<>>, <<>>) >>
  \o (IF ActiveMaintained(sig) >= 2
        THEN <<Text("%n actively maintained projects", <<ActiveMaintained(sig)>>, <<>>)>>
        ELSE <<>>)

\* yearsOnGitHub.toFixed(1), in tenths of a year
YearsTenths(days) == (days * 20 + 365) \div 730

\* yearsOnGitHub >= n, yearsOnGitHub = account_age_days / 365
YearsAtLeast(sig, n) == sig.account_age_days >= n * 365

\* activityScore >= n, activityScore = (recent_commit_velocity / 30) * active_days
ActivityAtLeast(sig, n) == sig.recent_commit_velocity * sig.active_days >= n * 30

\* as MockLevel, with Senior only for more than 5 years
MockLevel_StrictYears(sig) ==
  LET years == <<YearsTenths(sig.account_age_days)>>
  IN  IF sig.account_age_days > 5 * 365 /\ sig.stars_total >= 50
         /\ ActivityAtLeast(sig, 20)
        THEN [level |-> "Senior",
              rationale |-> Text("%n years, strong community engagement, high activity.",
                                 years, <<>>)]
      ELSE IF YearsAtLeast(sig, 2) /\ (sig.stars_total >= 10 \/ ActivityAtLeast(sig, 10))
        THEN [level |-> "Mid",
              rationale |-> Text("%n years, solid contribution patterns.", years, <<>>)]
      ELSE [level |-> "Junior",
            rationale |-> Text("%n years on GitHub, building foundation.", years, <<>>)]

\* as MockLevel, with Mid as the level when neither condition holds
MockLevel_MidByDefault(sig) ==
  LET years == <<YearsTenths(sig.account_age_days)>>
  IN  IF YearsAtLeast(sig, 5) /\ sig.stars_total >= 50 /\ ActivityAtLeast(sig, 20)
        THEN [level |-> "Senior",
              rationale |-> Text("%n years, strong community engagement, high activity.",
                                 years, <<>>)]
      ELSE IF YearsAtLeast(sig, 2) /\ (sig.stars_total >= 10 \/ ActivityAtLeast(sig, 10))
        THEN [level |-> "Mid",
              rationale |-> Text("%n years, solid contribution patterns.", years, <<>>)]
      ELSE [level |-> "Mid",
            rationale |-> Text("%n years on GitHub, building foundation.", years, <<>>)]

\* lines 218-236
MockLevel(sig) ==
  LET years == <<YearsTenths(sig.account_age_days)>>
  IN  IF YearsAtLeast(sig, 5) /\ sig.stars_total >= 50 /\ ActivityAtLeast(sig, 20)
        THEN [level |-> "Senior",
              rationale |-> Text("%n years, strong community engagement, high activity.",
                                 years, <<>>)]
      ELSE IF YearsAtLeast(sig, 2) /\ (sig.stars_total >= 10 \/ ActivityAtLeast(sig, 10))
        THEN [level |-> "Mid",
              rationale |-> Text("%n years, solid contribution patterns.", years, <<>>)]
      ELSE [level |-> "Junior",
            rationale |-> Text("%n years on GitHub, building foundation.", years, <<>>)]

Trait(t, d) == [trait |-> t, description |-> d]

\* lines 238-266
MockWorkStyle(sig) ==
  << Trait("Consistency",
           IF sig.active_days >= 15 THEN "Highly consistent daily activity"
                                    ELSE "Periodic bursts of contribution"),
     Trait("Ownership",
           IF sig.repo_count >= 10 THEN "Strong ownership of multiple projects"
                                   ELSE "Building project responsibility"),
     Trait("Collaboration",
           IF sig.collaboration_hint THEN "Comfortable collaborating in teams"
                                     ELSE "Independent and self-driven"),
     Trait("Shipping Velocity",
           IF sig.recent_commit_velocity >= 30 THEN "High-velocity shipping"
                                               ELSE "Moderate, quality-focused workflow") >>

LangNames(sig) == [i \in 1..Len(sig.primary_languages) |-> sig.primary_languages[i].name]

\* a role name: the fixed ones and `${language} Developer`
Role(text) == <<text>>

FallbackRole(language) == <<language, "Developer">>

\* as MockRoleFits, with Technical Lead pushed whenever the level is Senior
MockRoleFits_LeadAlways(sig, level) ==
  LET langs == LangNames(sig)
      r1 == IF Includes(langs, "JavaScript") \/ Includes(langs, "TypeScript")
              THEN <<Role("Full-stack JavaScript Developer")>>
                   \o (IF "web" \in sig.project_types
                         THEN <<Role("Frontend Engineer")>> ELSE <<>>)
              ELSE <<>>
      r2 == r1 \o (IF Includes(langs, "Python")
                     THEN <<Role("Backend Developer (Python)")>>
                          \o (IF "data" \in sig.project_types
                                THEN <<Role("Data Engineer")>> ELSE <<>>)
                     ELSE <<>>)
      r3 == r2 \o (IF "devops" \in sig.project_types
                     THEN <<Role("DevOps Engineer")>> ELSE <<>>)
      r4 == IF Len(r3) = 0
              THEN <<FallbackRole(IF langs # <<>> THEN langs[1] ELSE "Software")>>
              ELSE r3
      r5 == r4 \o (IF Len(r4) < 3 /\ "library" \in sig.project_types
                     THEN <<Role("SDK/Library Developer")>> ELSE <<>>)
  IN  (IF level = "Senior" THEN <<Role("Technical Lead")>> ELSE <<>>) \o r5

\* lines 271-296
MockRoleFits(sig, level) ==
  LET langs == LangNames(sig)
      r1 == IF Includes(langs, "JavaScript") \/ Includes(langs, "TypeScript")
              THEN <<Role("Full-stack JavaScript Developer")>>
                   \o (IF "web" \in sig.project_types
                         THEN <<Role("Frontend Engineer")>> ELSE <<>>)
              ELSE <<>>
      r2 == r1 \o (IF Includes(langs, "Python")
                     THEN <<Role("Backend Developer (Python)")>>
                          \o (IF "data" \in sig.project_types
                                THEN <<Role("Data Engineer")>> ELSE <<>>)
                     ELSE <<>>)
      r3 == r2 \o (IF "devops" \in sig.project_types
                     THEN <<Role("DevOps Engineer")>> ELSE <<>>)
      r4 == IF Len(r3) = 0
              THEN <<FallbackRole(IF langs # <<>> THEN langs[1] ELSE "Software")>>
              ELSE r3
      r5 == r4 \o (IF Len(r4) < 3 /\ "library" \in sig.project_types
                     THEN <<Role("SDK/Library Developer")>> ELSE <<>>)
  IN  r5 \o (IF Len(r5) < 5 /\ level = "Senior"
               THEN <<Role("Technical Lead")>> ELSE <<>>)

LevelBonus(level) ==
  IF level = "Senior" THEN 20 ELSE IF level = "Mid" THEN 10 ELSE 5

\* the literals 0.2, 0.3 and 1.5
Fifth == NumDiv(2, 10)

ThreeTenths == NumDiv(3, 10)

OneAndHalf == NumDiv(3, 2)

\* lines 301-314: Math.min(100, Math.round((stars_total / 10) * 0.2
\*   + (recent_commit_velocity / 2) * 0.3 + active_days * 1.5
\*   + collaboration bonus + level bonus)), every step rounded to a double
MockScore(sig, level) ==
  LET sum == NumPlus(NumPlus(NumPlus(NumPlus(
                 NumMul(NumDiv(sig.stars_total, 10), Fifth),
                 NumMul(NumDiv(sig.recent_commit_velocity, 2), ThreeTenths)),
                 NumMul(Num(sig.active_days), OneAndHalf)),
                 Num(IF sig.collaboration_hint THEN 10 ELSE 0)),
                 Num(LevelBonus(level)))
  IN  Min2(100, IntOf(MathRound(sum)))

ScoreRationale(score) ==
  IF score >= 75 THEN "Strong track record with consistent contributions."
  ELSE IF score >= 50 THEN "Solid foundation with growth potential."
  ELSE "Early-stage developer building a portfolio."

\* as generateMockProfile, with a point drawn from the random source added
\* to the score
generateMockProfile_Jittered(sig) ==
  LET lvl   == MockLevel(sig)
      score == Min2(100, MockScore(sig, lvl.level) + mkSeed)
  IN  [skills            |-> Take(MockSkills(sig), 10),
       real_work_evidence |-> Take(MockEvidence(sig), 6),
       experience_level  |-> lvl,
       work_style        |-> MockWorkStyle(sig),
       role_fits         |-> Take(MockRoleFits(sig, lvl.level), 5),
       workability_score |-> [score |-> score, rationale |-> ScoreRationale(score)]]

generateMockProfile(sig) ==
  LET lvl   == MockLevel(sig)
      score == MockScore(sig, lvl.level)
  IN  [skills            |-> Take(MockSkills(sig), 10),
       real_work_evidence |-> Take(MockEvidence(sig), 6),
       experience_level  |-> lvl,
       work_style        |-> MockWorkStyle(sig),
       role_fits         |-> Take(MockRoleFits(sig, lvl.level), 5),
       workability_score |-> [score |-> score, rationale |-> ScoreRationale(score)]]

(***************************************************************************)
(* services/signals: createWorkabilityProfile and the remote strategy      *)
(***************************************************************************)
\* isOpenAIConfigured(): !!process.env.OPENAI_API_KEY, read at every call
isOpenAIConfigured(key) == key

\* the outcomes of generateWorkabilityProfileWithAI once the request is sent:
\* the service call throws (error, timeout), the completion has no choice to
\* read, the content is not JSON, or the content parses to a JSON value
Thrown(kind) == [kind |-> kind, value |-> <<>>]

Parsed(v) == [kind |-> "json", value |-> v]

NotCalled == Thrown("none")

Fallback(sig) == [profile |-> generateMockProfile(sig), isMock |-> TRUE]

\* as OnRemote, with the content of a reply that is not JSON passed on
\* unparsed instead of JSON.parse throwing
OnRemote_Unparsed(outcome, sig) ==
  IF outcome.kind \in {"json", "non_json"}
    THEN [profile |-> outcome.value, isMock |-> FALSE]
    ELSE Fallback(sig)

\* lines 380-386: the try block around the remote strategy
OnRemote(outcome, sig) ==
  IF outcome.kind = "json"
    THEN [profile |-> outcome.value, isMock |-> FALSE]
    ELSE Fallback(sig)

(***************************************************************************)
(* services/scoring: scoreCandidate on signals (rubric 1)                  *)
(***************************************************************************)
\* String.prototype.toLowerCase on the strings of the model
ToLower(str) ==
  CASE str = "Python"     -> "python"
    [] str = "PYTHON"     -> "python"
    [] str = "Go"         -> "go"
    [] str = "Rust"       -> "rust"
    [] str = "JavaScript" -> "javascript"
    [] str = "TypeScript" -> "typescript"
    [] str = "Octo"       -> "octo"
    [] str = "Java"       -> "java"
    [] OTHER              -> str

LowerAll(strs) == [i \in 1..Len(strs) |-> ToLower(strs[i])]

\* as computeFitLevel, with the thresholds tested from the lowest up
computeFitLevel_Ascending(score) ==
  IF score >= 40 THEN "Weak"
  ELSE IF score >= 55 THEN "Moderate"
  ELSE IF score >= 70 THEN "Strong"
  ELSE IF score >= 85 THEN "Excellent"
  ELSE "Poor"

computeFitLevel(score) ==
  IF score >= 85 THEN "Excellent"
  ELSE IF score >= 70 THEN "Strong"
  ELSE IF score >= 55 THEN "Moderate"
  ELSE IF score >= 40 THEN "Weak"
  ELSE "Poor"

\* as Matched, with the entry compared as it is written
Matched_CaseSensitive(techs, lowered) == SelectSeq(techs, LAMBDA t : Includes(lowered, t))

\* the entries of techs found among the lower-cased names
Matched(techs, lowered) == SelectSeq(techs, LAMBDA t : Includes(lowered, ToLower(t)))

Unmatched(techs, lowered) == SelectSeq(techs, LAMBDA t : ~Includes(lowered, ToLower(t)))

\* as scoreCandidate, with the activity bonus only above 15 commits
scoreCandidate_StrictActivity(sig, job) ==
  LET langs    == LowerAll(LangNames(sig))
      must     == Matched(job.stackMust, langs)
      missing  == Unmatched(job.stackMust, langs)
      nice     == Matched(job.stackNice, langs)
      senior   == sig.stars_total >= 50 \/ sig.repo_count >= 15
      active   == sig.recent_commit_velocity > 15
      total    == 15 * Len(must) + 7 * Len(nice)
                    + (IF senior THEN 15 ELSE 0) + (IF active THEN 15 ELSE 0)
      score    == Min2(total, 100)
      fit      == computeFitLevel(score)
  IN  [score      |-> score,
       fit        |-> fit,
       highlights |->
         [i \in 1..Len(must) |->
            Text("Strong match for required skill: %s", <<>>, <<must[i]>>)]
         \o [i \in 1..Len(nice) |->
               Text("Good match for preferred skill: %s", <<>>, <<nice[i]>>)]
         \o (IF senior THEN <<Text("Senior-level project exposure", <<>>, <<>>)>> ELSE <<>>)
         \o (IF active THEN <<Text("Strong recent GitHub activity", <<>>, <<>>)>> ELSE <<>>),
       risks      |->
         [i \in 1..Len(missing) |->
            Text("Missing required skill: %s", <<>>, <<missing[i]>>)]
         \o (IF active THEN <<>> ELSE <<Text("Low recent GitHub activity", <<>>, <<>>)>>),
       explanation |->
         Text("This candidate matches %n required skills and shows %s alignment with the role.",
              <<Len(must)>>, <<fit>>)]

scoreCandidate(sig, job) ==
  LET langs    == LowerAll(LangNames(sig))
      must     == Matched(job.stackMust, langs)
      missing  == Unmatched(job.stackMust, langs)
      nice     == Matched(job.stackNice, langs)
      senior   == sig.stars_total >= 50 \/ sig.repo_count >= 15
      active   == sig.recent_commit_velocity >= 15
      total    == 15 * Len(must) + 7 * Len(nice)
                    + (IF senior THEN 15 ELSE 0) + (IF active THEN 15 ELSE 0)
      score    == Min2(total, 100)
      fit      == computeFitLevel(score)
  IN  [score      |-> score,
       fit        |-> fit,
       highlights |->
         [i \in 1..Len(must) |->
            Text("Strong match for required skill: %s", <<>>, <<must[i]>>)]
         \o [i \in 1..Len(nice) |->
               Text("Good match for preferred skill: %s", <<>>, <<nice[i]>>)]
         \o (IF senior THEN <<Text("Senior-level project exposure", <<>>, <<>>)>> ELSE <<>>)
         \o (IF active THEN <<Text("Strong recent GitHub activity", <<>>, <<>>)>> ELSE <<>>),
       risks      |->
         [i \in 1..Len(missing) |->
            Text("Missing required skill: %s", <<>>, <<missing[i]>>)]
         \o (IF active THEN <<>> ELSE <<Text("Low recent GitHub activity", <<>>, <<>>)>>),
       explanation |->
         Text("This candidate matches %n required skills and shows %s alignment with the role.",
              <<Len(must)>>, <<fit>>)]

(***************************************************************************)
(* services/matchEngine: scoreCandidate on a stored candidate (rubric 2).  *)
(***************************************************************************)
matchEngine_scoreCandidate(candidate, job) ==
  LET must        == LowerAll(job.stackMust)
      nice        == LowerAll(job.stackNice)
      skills      == LowerAll(candidate.skills)
      mustMatches == Len(SelectSeq(must, LAMBDA m : Includes(skills, m)))
      niceMatches == Len(SelectSeq(nice, LAMBDA n : Includes(skills, n)))
      mustScore   == NumTimes(NumDiv(mustMatches, Len(must)), 60)
      niceScore   == NumTimes(NumDiv(niceMatches, Len(nice)), 20)
      seniorityOk == candidate.seniority = job.seniority
      yearsOk     == candidate.experienceYears >= job.experienceRequired
      score       == NumPlus(NumPlus(NumPlus(NumPlus(Num(0), mustScore), niceScore),
                                     Num(IF seniorityOk THEN 10 ELSE 0)),
                             Num(IF yearsOk THEN 10 ELSE 0))
  IN  [score      |-> MathRound(score),
       fitLabel   |-> IF NumAtLeast(score, 80) THEN "Excellent"
                      ELSE IF NumAtLeast(score, 60) THEN "Strong"
                      ELSE IF NumAtLeast(score, 40) THEN "Moderate"
                      ELSE "Weak",
       highlights |->
         (IF mustMatches = Len(must) THEN <<"Has all must-have skills">> ELSE <<>>)
         \o (IF niceMatches > 0 THEN <<"Knows several preferred technologies">> ELSE <<>>)
         \o (IF seniorityOk THEN <<"Perfect seniority match">> ELSE <<>>)
         \o (IF yearsOk THEN <<"Strong real-world experience">> ELSE <<>>),
       risks      |->
         (IF mustMatches < Len(must) THEN <<"Missing some required technologies">> ELSE <<>>)
         \o (IF seniorityOk THEN <<>> ELSE <<"Seniority does not fully match">>)
         \o (IF yearsOk THEN <<>> ELSE <<"May need more experience for this role">>)]

(***************************************************************************)
(* State                                                                   *)
(***************************************************************************)
VARIABLES
  now,        \* Date.now() of the evaluation
  user,       \* the profile passed to aggregateSignals
  repos,      \* the repository list passed to aggregateSignals
  upstream,   \* languages and commits the platform holds, by repository name
  aggPc,      \* position of the aggregateSignals call
  aggLocal,   \* its locals topRepos, starsTotal, forksTotal, projectTypes
  fetches,    \* the two fetch promises of every selected repository
  fetchLog,   \* the fetches issued, as <<kind, repository name>>
  settleOrder, \* the selected repositories in the order their fetches completed
  signals,    \* the record aggregateSignals resolved to
  keyAtLoad,  \* OPENAI_API_KEY was set when the module was loaded (openaiClient)
  keyNow,     \* OPENAI_API_KEY is set now
  profSignals,   \* the signals passed to createWorkabilityProfile
  profPc,        \* position of the createWorkabilityProfile call
  remoteCalls,   \* requests sent to the reasoning service
  remoteOutcome, \* how the remote strategy ended
  profResult,    \* what createWorkabilityProfile resolved to
  scRubric,      \* the scorer called: 1 on signals, 2 on a stored candidate
  scSignals,     \* the signals scored by rubric 1
  scCandidate,   \* the stored candidate scored by rubric 2
  scJob,         \* the job scored against
  scPc,          \* position of the scoring call
  scResult,      \* the MatchResult returned
  rtClock,       \* Date.now() of the analyze route, in ticks of three hours
  rtKey,         \* OPENAI_API_KEY is set for the route's process
  store,         \* the Analysis collection, in order of creation
  reqs,          \* the requests to GET /api/analyze/:username
  jbKey,         \* OPENAI_API_KEY is set for the jobs route's process
  jbResults,     \* the JobResult collection, in order of creation
  jbReq          \* the request to POST /api/jobs/:id/analyze

aggVars ==
  <<now, user, repos, upstream, aggPc, aggLocal, fetches, fetchLog, settleOrder, signals>>

profVars == <<keyAtLoad, keyNow, profSignals, profPc, remoteCalls, remoteOutcome, profResult>>

scoreVars == <<scRubric, scSignals, scCandidate, scJob, scPc, scResult>>

routeVars == <<rtClock, rtKey, store, reqs>>

mockVars == <<mkClock, mkSeed, mkCalls, mkLog, mkStyleLog>>

jobVars == <<jbKey, jbResults, jbReq>>

vars == <<aggVars, profVars, scoreVars, routeVars, mockVars, jobVars>>

NoSignals == [repo_count |-> Missing]

NoLocal == [top |-> <<>>, basic |-> BasicSignals(<<>>)]

AggIdle ==
  /\ now = 0
  /\ user = [login |-> Owner, created_at |-> 0]
  /\ repos = <<>>
  /\ upstream = <<>>
  /\ aggPc = "idle"
  /\ aggLocal = NoLocal
  /\ fetches = <<>>
  /\ fetchLog = {}
  /\ settleOrder = <<>>
  /\ signals = NoSignals

NoResult == [profile |-> <<>>, isMock |-> FALSE]

ProfIdle ==
  /\ keyAtLoad = FALSE
  /\ keyNow = FALSE
  /\ profSignals = NoSignals
  /\ profPc = "idle"
  /\ remoteCalls = 0
  /\ remoteOutcome = NotCalled
  /\ profResult = NoResult

NoCandidate == [skills |-> <<>>, seniority |-> "none", experienceYears |-> 0]

NoJob == [stackMust |-> <<>>, stackNice |-> <<>>, seniority |-> "none", experienceRequired |-> 0]

NoMatch == [score |-> Missing]

ScoreIdle ==
  /\ scRubric = 0
  /\ scSignals = NoSignals
  /\ scCandidate = NoCandidate
  /\ scJob = NoJob
  /\ scPc = "idle"
  /\ scResult = NoMatch

RouteIdle ==
  /\ rtClock = 0
  /\ rtKey = FALSE
  /\ store = <<>>
  /\ reqs = <<>>

MockIdle ==
  /\ mkClock = 0
  /\ mkSeed = 0
  /\ mkCalls = 0
  /\ mkLog = <<>>
  /\ mkStyleLog = <<>>

NoJobRequest == [pc |-> "idle"]

JobIdle ==
  /\ jbKey = FALSE
  /\ jbResults = <<>>
  /\ jbReq = NoJobRequest

(***************************************************************************)
(* aggregateSignals as a process: the synchronous start that issues every  *)
(* fetch, the fetches settling in any order, the aggregation after the     *)
(* batch has settled                                                       *)
(***************************************************************************)
MaxAggRepos == 2

\* the repository lists of the process model: up to n different repositories
KindLists(n) ==
  {ks \in UNION {[1..k -> 1..NumKinds] : k \in 0..n} :
     \A i, j \in 1..Len(ks) : i # j => ks[i] # ks[j]}

Users == {[login |-> Owner, created_at |-> At(Today - 800, 1)]}

\* the users of the aggregation process: an account of 800 days and one of
\* 100 days
AggUsers == Users \cup {[login |-> Owner, created_at |-> At(Today - 100, 0)]}

InitAggWith(users, kindLists) ==
  /\ now \in NowSet
  /\ user \in users
  /\ \E kinds \in kindLists :
        /\ repos = ReposOf(kinds)
        /\ upstream = UpstreamOf(kinds)
  /\ aggPc = "start"
  /\ aggLocal = NoLocal
  /\ fetches = <<>>
  /\ fetchLog = {}
  /\ settleOrder = <<>>
  /\ signals = NoSignals
  /\ ProfIdle
  /\ ScoreIdle
  /\ RouteIdle
  /\ MockIdle
  /\ JobIdle

\* lines 42-97: everything up to the first await
AggStart ==
  /\ aggPc = "start"
  /\ LET top == TopRepos(repos)
     IN  /\ aggLocal' = [top |-> top, basic |-> BasicSignals(top)]
         /\ fetches' = [i \in 1..Len(top) |-> [languages |-> Pending, commits |-> Pending]]
         /\ fetchLog' = {<<"languages", top[i].name>> : i \in 1..Len(top)}
                          \cup {<<"commits", top[i].name>> : i \in 1..Len(top)}
  /\ aggPc' = "fetching"
  /\ UNCHANGED <<now, user, repos, upstream, settleOrder, signals>>
  /\ UNCHANGED <<profVars, scoreVars, routeVars, mockVars, jobVars>>

\* the languages request of the i-th selected repository completes
SettleLanguages(i) ==
  /\ aggPc = "fetching"
  /\ fetches[i].languages.status = "pending"
  /\ \E http \in HttpOutcomes :
        fetches' = [fetches EXCEPT ![i].languages =
                      fetchRepoLanguages(http, upstream[aggLocal.top[i].name].langs)]
  /\ settleOrder' = IF fetches[i].commits.status # "pending"
                      THEN Append(settleOrder, i) ELSE settleOrder
  /\ UNCHANGED <<now, user, repos, upstream, aggPc, aggLocal, fetchLog, signals>>
  /\ UNCHANGED <<profVars, scoreVars, routeVars, mockVars, jobVars>>

\* the commits request of the i-th selected repository completes
SettleCommits(i) ==
  /\ aggPc = "fetching"
  /\ fetches[i].commits.status = "pending"
  /\ \E http \in CommitHttpOutcomes :
        fetches' = [fetches EXCEPT ![i].commits =
                      fetchRepoCommits(http, upstream[aggLocal.top[i].name].commits)]
  /\ settleOrder' = IF fetches[i].languages.status # "pending"
                      THEN Append(settleOrder, i) ELSE settleOrder
  /\ UNCHANGED <<now, user, repos, upstream, aggPc, aggLocal, fetchLog, signals>>
  /\ UNCHANGED <<profVars, scoreVars, routeVars, mockVars, jobVars>>

AllSettled ==
  \A i \in 1..Len(fetches) :
     fetches[i].languages.status # "pending" /\ fetches[i].commits.status # "pending"

\* as ResolvedRepoData, with the results in the order of completion
ResolvedRepoData_AsCompleted(fs) ==
  [k \in 1..Len(settleOrder) |->
     RepoData(fs[settleOrder[k]].languages, fs[settleOrder[k]].commits)]

\* await Promise.allSettled(repoDataPromises): the results in the order of
\* topRepos
ResolvedRepoData(fs) ==
  [i \in 1..Len(fs) |-> RepoData(fs[i].languages, fs[i].commits)]

\* as AggFinish, with a deadline of the engine's own: it goes on as soon as
\* one fetch has settled and reads the unsettled ones as empty
AggFinish_Deadline ==
  /\ aggPc = "fetching"
  /\ \/ fetches = <<>>
     \/ \E i \in 1..Len(fetches) :
           fetches[i].languages.status # "pending" \/ fetches[i].commits.status # "pending"
  /\ signals' = Aggregate(user, repos, aggLocal.top, aggLocal.basic,
                          ResolvedRepoData(fetches), now)
  /\ aggPc' = "done"
  /\ UNCHANGED <<now, user, repos, upstream, aggLocal, fetches, fetchLog, settleOrder>>
  /\ UNCHANGED <<profVars, scoreVars, routeVars, mockVars, jobVars>>

\* lines 99-158: after await Promise.allSettled(repoDataPromises)
AggFinish ==
  /\ aggPc = "fetching"
  /\ AllSettled
  /\ signals' = Aggregate(user, repos, aggLocal.top, aggLocal.basic,
                          ResolvedRepoData(fetches), now)
  /\ aggPc' = "done"
  /\ UNCHANGED <<now, user, repos, upstream, aggLocal, fetches, fetchLog, settleOrder>>
  /\ UNCHANGED <<profVars, scoreVars, routeVars, mockVars, jobVars>>

InitAgg == InitAggWith(AggUsers, KindLists(MaxAggRepos))

NextAgg ==
  \/ AggStart
  \/ \E i \in 1..Len(fetches) : SettleLanguages(i)
  \/ \E i \in 1..Len(fetches) : SettleCommits(i)
  \/ AggFinish

SpecAgg == InitAgg /\ [][NextAgg]_vars


(***************************************************************************)
(* Properties of aggregateSignals                                          *)
(***************************************************************************)
Selected == aggLocal.top

\* what the platform holds for the i-th selected repository
UpLangs(i) == upstream[Selected[i].name].langs

UpCommits(i) == upstream[Selected[i].name].commits

BytesIn(langs, name) ==
  SumSeq([k \in 1..Len(langs) |-> IF langs[k].name = name THEN langs[k].bytes ELSE 0])

\* languages and commits that must be counted: all of a repository whose
\* fetch succeeded, none of a repository whose fetch failed
DueLangs(i) == IF fetches[i].languages.failed THEN <<>> ELSE UpLangs(i)

DueCommits(i) == IF fetches[i].commits.failed THEN <<>> ELSE UpCommits(i)

DueBytes(name) ==
  SumSeq([i \in 1..Len(fetches) |-> BytesIn(DueLangs(i), name)])

DueNames == UNION {{l.name : l \in Range(DueLangs(i))} : i \in 1..Len(fetches)}

DueTotal ==
  SumSeq([i \in 1..Len(fetches) |->
            SumSeq([k \in 1..Len(DueLangs(i)) |-> DueLangs(i)[k].bytes])])

DueRecent(i) == {k \in 1..Len(DueCommits(i)) : InWindow(DueCommits(i)[k].date, now)}

\* C1: whatever fetches fail, aggregateSignals resolves to a signals record in
\* which a repository whose languages (commits) fetch failed contributes no
\* languages (no commits) and the fetched languages and commits of every
\* other fetch are counted in full: the velocity, the active days, the
\* collaboration hint and the language shares are those of exactly the
\* successfully fetched data.
C1_FailedFetchesIsolated ==
  aggPc = "done" =>
    /\ signals # NoSignals
    /\ signals.recent_commit_velocity =
         SumSeq([i \in 1..Len(fetches) |-> Cardinality(DueRecent(i))])
    /\ signals.active_days =
         Cardinality(UNION {{UTCDate(DueCommits(i)[k].date) : k \in DueRecent(i)} :
                              i \in 1..Len(fetches)})
    /\ signals.collaboration_hint =
         (\E i \in 1..Len(fetches) :
            \E c \in Range(DueCommits(i)) : c.author \notin {NoAuthor, user.login})
    /\ Len(signals.primary_languages) = Min2(3, Cardinality(DueNames))
    /\ \A k \in 1..Len(signals.primary_languages) :
         LET p == signals.primary_languages[k]
         IN  /\ p.name \in DueNames
             /\ p.percentage = Percentage(DueBytes(p.name), DueTotal)

\* a run in which one repository lost a fetch of non-empty data while another
\* repository's languages and commits were both fetched and counted
C1_Witness ==
  /\ aggPc = "done"
  /\ \E i, j \in 1..Len(fetches) :
       /\ i # j
       /\ fetches[i].languages.failed /\ UpLangs(i) # <<>>
       /\ ~fetches[i].commits.failed /\ DueRecent(i) # {}
       /\ ~fetches[j].languages.failed /\ UpLangs(j) # <<>>
       /\ fetches[j].commits.failed /\ UpCommits(j) # <<>>
  /\ signals.recent_commit_velocity > 0
  /\ signals.primary_languages # <<>>

\* C5: active_days is at most 30, whatever the authored dates of the fetched
\* commits are.
C5_ActiveDaysAtMostThirty ==
  aggPc = "done" => signals.active_days <= WindowDays

\* the fetched commits of the i-th selected repository whose authored date
\* lies in the 30 days up to the evaluation time
DueTrailing(i) ==
  {k \in 1..Len(DueCommits(i)) :
     /\ DueCommits(i)[k].date >= ThirtyDaysAgo(now)
     /\ DueCommits(i)[k].date <= now}

\* C23: recent_commit_velocity is the number of fetched commits, over all
\* selected repositories, whose authored date is within the trailing 30-day
\* window, and active_days is the number of distinct UTC calendar dates
\* among exactly those commits; hence active_days <= recent_commit_velocity
\* and active_days = 0 exactly when recent_commit_velocity = 0.
C23_VelocityAndActiveDays ==
  aggPc = "done" =>
    /\ signals.recent_commit_velocity =
         SumSeq([i \in 1..Len(fetches) |-> Cardinality(DueTrailing(i))])
    /\ signals.active_days =
         Cardinality(UNION {{UTCDate(DueCommits(i)[k].date) : k \in DueTrailing(i)} :
                              i \in 1..Len(fetches)})
    /\ signals.active_days <= signals.recent_commit_velocity
    /\ (signals.active_days = 0) = (signals.recent_commit_velocity = 0)

\* the fetched commits of the i-th selected repository with an author login
\* other than the owner's
DueForeign(i) ==
  {k \in 1..Len(DueCommits(i)) :
     /\ DueCommits(i)[k].author # NoAuthor
     /\ DueCommits(i)[k].author # user.login}

\* C24: collaboration_hint is true exactly when at least one commit fetched
\* for a selected repository, inside the 30-day window or not, has an author
\* login different from the owner's login; it is false when no commits were
\* fetched, and a later commit of the owner does not reset it.
C24_CollaborationHint ==
  aggPc = "done" =>
    /\ signals.collaboration_hint = (\E i \in 1..Len(fetches) : DueForeign(i) # {})
    /\ (\A i \in 1..Len(fetches) : DueCommits(i) = <<>>) => ~signals.collaboration_hint

\* the only foreign commit lies outside the window and is followed by a
\* commit of the owner and by one without an author
C24_Witness ==
  /\ aggPc = "done"
  /\ signals.collaboration_hint
  /\ \E i \in 1..Len(fetches) :
        /\ DueForeign(i) = {1}
        /\ 1 \notin DueRecent(i)
        /\ Len(DueCommits(i)) = 3
        /\ DueCommits(i)[2].author = user.login
        /\ DueCommits(i)[3].author = NoAuthor
        /\ \A j \in 1..Len(fetches) : j # i => DueForeign(j) = {}

\* every fetch of the selected repositories
AllFetches ==
  {<<kind, Selected[i].name>> : kind \in {"languages", "commits"}, i \in 1..Len(Selected)}

SomeSettled ==
  \E i \in 1..Len(fetches) :
     fetches[i].languages.status # "pending" \/ fetches[i].commits.status # "pending"

\* the signals of the fetched data taken in the order of the selection
SignalsInSelectionOrder ==
  Aggregate(user, repos, Selected, BasicSignals(Selected),
            [i \in 1..Len(Selected) |->
               [languages |-> DueLangs(i), commits |-> DueCommits(i)]], now)

\* C25: all language and commit fetches of the selected repositories are
\* issued before any of them completes, the aggregation happens only after
\* every one of them has settled, and the returned signals, the order of
\* primary_languages among equal percentages included, do not depend on the
\* order in which the fetches complete.
C25_FanOutThenBatch ==
  /\ SomeSettled => fetchLog = AllFetches
  /\ aggPc = "fetching" => fetchLog = AllFetches /\ signals = NoSignals
  /\ signals # NoSignals => AllSettled
  /\ aggPc = "done" => signals = SignalsInSelectionOrder

\* the second repository completed first, and its language ties with a
\* language of the first repository, which keeps the place ahead of it
C25_Witness ==
  /\ aggPc = "done"
  /\ settleOrder = <<2, 1>>
  /\ Len(signals.primary_languages) = 3
  /\ signals.primary_languages[2].percentage = signals.primary_languages[3].percentage
  /\ \E l \in Range(DueLangs(1)) : l.name = signals.primary_languages[2].name
  /\ \E l \in Range(DueLangs(2)) : l.name = signals.primary_languages[3].name
  /\ \A l \in Range(DueLangs(1)) : l.name # signals.primary_languages[3].name

\* the language bytes that were aggregated: those of the settled fetches
CountedBytes(name) ==
  SumSeq([i \in 1..Len(fetches) |-> BytesIn(fetches[i].languages.value, name)])

CountedTotal ==
  SumSeq([i \in 1..Len(fetches) |->
            SumSeq([k \in 1..Len(fetches[i].languages.value) |->
                      fetches[i].languages.value[k].bytes])])

Percentages(sig) ==
  [k \in 1..Len(sig.primary_languages) |-> sig.primary_languages[k].percentage]

\* the double d is bytes * 100 / total up to 2^-40:
\* | d.m * 2^d.e * total - 100 * bytes | <= total * 2^-40
IsShare(d, bytes, total) ==
  LET scaled == BigMul(d.m, BigOf(total))
      exact  == BigShl(BigOf(100 * bytes), 0 - d.e)
      slack  == BigShl(BigOf(total), 0 - d.e - 40)
  IN  /\ ~BigLess(BigAdd(exact, slack), scaled)
      /\ ~BigLess(BigAdd(scaled, slack), exact)

\* the doubles of ds sum to more than 100 + 2^-40 (exact sum)
SumExceedsRounding(ds) ==
  IF ds = <<>> THEN FALSE
  ELSE LET emin == MinExp(ds)
       IN  BigLess(BigAdd(BigShl(BigOf(100), 0 - emin), BigShl(<<1>>, 0 - emin - 40)),
                   SumAligned(ds, emin))

PrimaryLanguagesShape(sig) ==
  LET pl == sig.primary_languages
  IN  /\ Len(pl) <= 3
      /\ \A i, j \in 1..Len(pl) : i < j => ~DoubleLess(pl[i].percentage, pl[j].percentage)
      /\ \A k \in 1..Len(pl) : IsShare(pl[k].percentage, CountedBytes(pl[k].name), CountedTotal)
      /\ (pl = <<>>) <=> (CountedTotal = 0)

MaxTopRepos == 11

\* lists of up to n repositories: a run of one kind followed by a run of
\* another kind
BlockLists(n) ==
  {[i \in 1..k |-> IF i <= m THEN a ELSE b] :
     k \in 0..n, m \in 0..n, a \in 1..NumKinds, b \in 1..NumKinds}

InitTop == InitAggWith(Users, BlockLists(MaxTopRepos))

\* the whole call: start, every fetch settled (the languages requests all
\* answered or all failed, the commits requests likewise), aggregation
AggregateSignalsCall ==
  /\ aggPc = "start"
  /\ \E httpL \in HttpOutcomes, httpC \in CommitHttpOutcomes :
       LET top   == TopRepos(repos)
           basic == BasicSignals(top)
           fs    == [i \in 1..Len(top) |->
                       [languages |-> fetchRepoLanguages(httpL, upstream[top[i].name].langs),
                        commits   |-> fetchRepoCommits(httpC, upstream[top[i].name].commits)]]
       IN  /\ aggLocal' = [top |-> top, basic |-> basic]
           /\ fetches' = fs
           /\ fetchLog' = {<<"languages", top[i].name>> : i \in 1..Len(top)}
                            \cup {<<"commits", top[i].name>> : i \in 1..Len(top)}
           /\ settleOrder' = [i \in 1..Len(top) |-> i]
           /\ signals' = Aggregate(user, repos, top, basic, ResolvedRepoData(fs), now)
  /\ aggPc' = "done"
  /\ UNCHANGED <<now, user, repos, upstream>>
  /\ UNCHANGED <<profVars, scoreVars, routeVars, mockVars, jobVars>>

NextTop == AggregateSignalsCall

SpecTop == InitTop /\ [][NextTop]_vars

\* the repositories a languages (commits) fetch was issued for, as positions
\* of the list passed in (a repository's name is its position)
LanguagesFetched == {i \in 1..Len(repos) : <<"languages", repos[i].name>> \in fetchLog}

CommitsFetched == {i \in 1..Len(repos) : <<"commits", repos[i].name>> \in fetchLog}

RepoStars(i) == StarsOf(repos[i])

RepoForks(i) == ForksOf(repos[i])

StarsOver(S) == SumSeq([i \in 1..Len(repos) |-> IF i \in S THEN RepoStars(i) ELSE 0])

ForksOver(S) == SumSeq([i \in 1..Len(repos) |-> IF i \in S THEN RepoForks(i) ELSE 0])

\* C7: stars_total and forks_total are the sums over exactly the 10
\* repositories with the highest star counts (all of them when there are
\* fewer), languages and commits are fetched for exactly those repositories
\* and for no other, and repo_count is the length of the full list.
C7_TopTenSubset ==
  aggPc = "done" =>
    LET S == LanguagesFetched
    IN  /\ CommitsFetched = S
        /\ Cardinality(fetchLog) = 2 * Cardinality(S)
        /\ Cardinality(S) = Min2(TopN, Len(repos))
        /\ \A i \in S : \A j \in (1..Len(repos)) \ S : RepoStars(i) >= RepoStars(j)
        /\ signals.stars_total = StarsOver(S)
        /\ signals.forks_total = ForksOver(S)
        /\ signals.repo_count = Len(repos)

\* a list of more than ten repositories of which a late, highly starred one
\* is selected and an earlier one is left out
C7_Witness ==
  /\ aggPc = "done"
  /\ Len(repos) > TopN
  /\ signals.repo_count = Len(repos)
  /\ \E i \in LanguagesFetched : i > TopN
  /\ \E j \in 1..TopN : j \notin LanguagesFetched /\ RepoStars(j) < RepoStars(Len(repos))
  /\ signals.stars_total > 0
  /\ signals.forks_total > 0


\* the repositories ranked ahead of the i-th one: more stars, or as many stars
\* and listed earlier
AheadOf(i) ==
  {j \in 1..Len(repos) :
     \/ RepoStars(j) > RepoStars(i)
     \/ RepoStars(j) = RepoStars(i) /\ j < i}

\* C22: the selected repositories are ordered by star count descending, ties
\* in input order, a missing star count counting as 0; top_repos is the
\* first 5 of that ordering (fewer when fewer repositories exist), a prefix
\* of the top-10 subset, with non-increasing stars.
C22_TopReposOrdered ==
  aggPc = "done" =>
    LET top   == aggLocal.top
        shown == signals.top_repos
    IN  /\ Len(top) = Min2(10, Len(repos))
        /\ \A i \in 1..Len(top) :
              /\ top[i] = repos[top[i].name]
              /\ Cardinality(AheadOf(top[i].name)) = i - 1
        /\ Len(shown) = Min2(5, Len(repos))
        /\ \A i \in 1..Len(shown) :
              /\ shown[i].name = top[i].name
              /\ shown[i].stars = RepoStars(shown[i].name)
              /\ shown[i].language = repos[shown[i].name].language
        /\ \A i \in 1..Len(shown), j \in 1..Len(shown) :
              i < j => shown[i].stars >= shown[j].stars

\* more than five repositories, the first listed one without a star count
\* and not shown, and two shown repositories with equal stars in their input
\* order
C22_Witness ==
  /\ aggPc = "done"
  /\ Len(repos) > 5
  /\ repos[1].stargazers_count = Missing
  /\ \A i \in 1..Len(signals.top_repos) : signals.top_repos[i].name # 1
  /\ \E i \in 1..4 :
        /\ signals.top_repos[i].stars = signals.top_repos[i + 1].stars
        /\ signals.top_repos[i].name < signals.top_repos[i + 1].name

\* C17: with an empty repository list aggregateSignals issues no language
\* and no commit fetch and returns repo_count, stars_total, forks_total,
\* recent_commit_velocity and active_days 0 and empty primary_languages and
\* top_repos; generateMockProfile applied to these signals gives the level
\* Junior unless account_age_days / 365 >= 2.
C17_EmptyRepositoryList ==
  (aggPc = "done" /\ repos = <<>>) =>
    /\ fetchLog = {}
    /\ fetches = <<>>
    /\ signals.repo_count = 0
    /\ signals.stars_total = 0
    /\ signals.forks_total = 0
    /\ signals.recent_commit_velocity = 0
    /\ signals.active_days = 0
    /\ signals.primary_languages = <<>>
    /\ signals.top_repos = <<>>
    /\ signals.account_age_days < 2 * 365 =>
         generateMockProfile(signals).experience_level.level = "Junior"

\* the account of 100 days without repositories: no fetch, level Junior
C17_Witness ==
  /\ aggPc = "done"
  /\ repos = <<>>
  /\ fetchLog = {}
  /\ signals.repo_count = 0
  /\ signals.account_age_days = 100
  /\ generateMockProfile(signals).experience_level.level = "Junior"


(***************************************************************************)
(* Signals records the synthesizer is applied to                           *)
(***************************************************************************)
\* primary_languages of the named languages, by falling share
LanguagesNamed(names) ==
  PrimaryLanguages([i \in 1..Len(names) |-> Lang(names[i], Len(names) + 1 - i)])

TopRepoOut(n, stars, language, active) ==
  [name |-> n, stars |-> stars, language |-> language, recent_activity |-> active]

SignalsOf(names, types, velocity, days, stars, count, collab, age, tops) ==
  [primary_languages      |-> LanguagesNamed(names),
   repo_count             |-> count,
   stars_total            |-> stars,
   forks_total            |-> 0,
   recent_commit_velocity |-> velocity,
   active_days            |-> days,
   project_types          |-> types,
   collaboration_hint     |-> collab,
   account_age_days       |-> age,
   top_repos              |-> tops]

SampleTops ==
  { <<>>,
    <<TopRepoOut(1, 40, "JavaScript", TRUE), TopRepoOut(2, 10, "none", TRUE)>> }

ProfileSamples ==
  {SignalsOf(names, types, 40, 31, stars, 12, collab, 1825, tops) :
     names \in {<<>>, <<"JavaScript", "Python", "Go">>},
     types \in {{}, {"web", "data", "library"}},
     stars \in {0, 50},
     collab \in BOOLEAN,
     tops \in SampleTops}

(***************************************************************************)
(* createWorkabilityProfile as a process                                   *)
(***************************************************************************)
\* a reply that has the shape the instruction asks for
GoodReply ==
  [skills             |-> <<Skill("Go", "High"), Skill("Rust", "Low")>>,
   real_work_evidence |-> <<Text("Maintains a compiler", <<>>, <<>>)>>,
   experience_level   |-> [level |-> "Senior", rationale |-> Text("long record", <<>>, <<>>)],
   work_style         |-> <<Trait("Consistency", "steady")>>,
   role_fits          |-> <<Role("Systems Engineer")>>,
   workability_score  |-> [score |-> 88, rationale |-> "strong"]]

\* replies that are JSON but not of that shape
BadReplies ==
  { [skills |-> GoodReply.skills],
    [GoodReply EXCEPT !.skills = <<Skill("Go", "Expert")>>],
    [GoodReply EXCEPT !.experience_level.level = "Principal"],
    [GoodReply EXCEPT !.workability_score.score = 150] }

RemoteOutcomes ==
  {Thrown("error"), Thrown("timeout"), Thrown("no_choices"), Thrown("non_json")}
    \cup {Parsed(v) : v \in {GoodReply} \cup BadReplies}

InitProfile ==
  /\ AggIdle
  /\ ScoreIdle
  /\ RouteIdle
  /\ MockIdle
  /\ JobIdle
  /\ keyAtLoad \in BOOLEAN
  /\ keyNow \in BOOLEAN
  /\ profSignals \in ProfileSamples
  /\ profPc = "start"
  /\ remoteCalls = 0
  /\ remoteOutcome = NotCalled
  /\ profResult = NoResult

\* no credential: line 389
ProfileWithoutKey ==
  /\ profPc = "start"
  /\ ~isOpenAIConfigured(keyNow)
  /\ profResult' = Fallback(profSignals)
  /\ profPc' = "done"
  /\ UNCHANGED <<keyAtLoad, keyNow, profSignals, remoteCalls, remoteOutcome>>
  /\ UNCHANGED <<aggVars, scoreVars, routeVars, mockVars, jobVars>>

\* credential set but no client was built at load time: line 343 throws
ProfileWithoutClient ==
  /\ profPc = "start"
  /\ isOpenAIConfigured(keyNow)
  /\ ~keyAtLoad
  /\ remoteOutcome' = Thrown("not_configured")
  /\ profResult' = OnRemote(Thrown("not_configured"), profSignals)
  /\ profPc' = "done"
  /\ UNCHANGED <<keyAtLoad, keyNow, profSignals, remoteCalls>>
  /\ UNCHANGED <<aggVars, scoreVars, routeVars, mockVars, jobVars>>

\* lines 359-369: the request is sent
ProfileCallRemote ==
  /\ profPc = "start"
  /\ isOpenAIConfigured(keyNow)
  /\ keyAtLoad
  /\ remoteCalls' = remoteCalls + 1
  /\ profPc' = "awaiting"
  /\ UNCHANGED <<keyAtLoad, keyNow, profSignals, remoteOutcome, profResult>>
  /\ UNCHANGED <<aggVars, scoreVars, routeVars, mockVars, jobVars>>

\* lines 371-372 and 382-385: the request settles
ProfileRemoteSettles ==
  /\ profPc = "awaiting"
  /\ \E outcome \in RemoteOutcomes :
        /\ remoteOutcome' = outcome
        /\ profResult' = OnRemote(outcome, profSignals)
  /\ profPc' = "done"
  /\ UNCHANGED <<keyAtLoad, keyNow, profSignals, remoteCalls>>
  /\ UNCHANGED <<aggVars, scoreVars, routeVars, mockVars, jobVars>>

NextProfile ==
  \/ ProfileWithoutKey
  \/ ProfileWithoutClient
  \/ ProfileCallRemote
  \/ ProfileRemoteSettles

SpecProfile == InitProfile /\ [][NextProfile]_vars

\* C2: createWorkabilityProfile always resolves to {profile, isMock}; the
\* reasoning service is called only when a credential is configured; isMock
\* is false only when the call returned parseable JSON, and in every other
\* case the result is generateMockProfile(signals) with isMock true.
C2_AlwaysResolvesToProfile ==
  /\ profPc \in {"start", "awaiting", "done"}
  /\ remoteCalls > 0 => keyNow
  /\ profPc = "awaiting" => remoteCalls = 1
  /\ profPc = "done" =>
       /\ profResult # NoResult
       /\ ~profResult.isMock => remoteOutcome.kind = "json" /\ remoteCalls = 1
       /\ remoteOutcome.kind # "json" =>
            /\ profResult.isMock
            /\ profResult.profile = generateMockProfile(profSignals)

\* the remote call timed out and the deterministic profile was returned
C2_Witness ==
  /\ profPc = "done"
  /\ remoteCalls = 1
  /\ remoteOutcome = Thrown("timeout")
  /\ profResult.isMock
  /\ profResult.profile.experience_level.level = "Senior"

\* the WorkabilityProfile shape of a parsed reply
SchemaValid(v) ==
  /\ {"skills", "real_work_evidence", "experience_level", "work_style",
      "role_fits", "workability_score"} \subseteq DOMAIN v
  /\ \A i \in 1..Len(v.skills) : v.skills[i].confidence \in {"High", "Med", "Low"}
  /\ v.experience_level.level \in {"Junior", "Mid", "Senior"}
  /\ v.workability_score.score \in 0..100

\* C3: when the reasoning service answers with JSON that violates the
\* WorkabilityProfile shape, createWorkabilityProfile returns the
\* deterministic profile with isMock = true; a schema-violating object is
\* never returned with isMock = false.
C3_SchemaViolationFallsBack ==
  (profPc = "done" /\ remoteOutcome.kind = "json" /\ ~SchemaValid(remoteOutcome.value)) =>
    /\ profResult.isMock
    /\ profResult.profile = generateMockProfile(profSignals)


(***************************************************************************)
(* generateMockProfile applied to signals around its thresholds            *)
(***************************************************************************)
\* recent_commit_velocity and active_days
SynthActivity == {<<0, 0>>, <<10, 29>>, <<10, 30>>, <<20, 29>>, <<20, 30>>, <<114, 2>>}

\* the languages are ranked once per list of names
SynthLanguages ==
  {SignalsOf(names, {}, 0, 0, 0, 12, FALSE, 0, <<>>) :
     names \in {<<>>, <<"Go">>, <<"Rust", "Go">>, <<"TypeScript">>,
                <<"JavaScript", "Python", "Go">>}}

SynthSamples ==
  {[base EXCEPT !.project_types = types,
                !.recent_commit_velocity = act[1],
                !.active_days = act[2],
                !.stars_total = stars,
                !.collaboration_hint = collab,
                !.account_age_days = age] :
     base \in SynthLanguages,
     types \in {{}, {"web", "data"}, {"devops"}, {"library"},
                {"web", "data", "library"}, {"web", "data", "devops", "library"}},
     act \in SynthActivity,
     stars \in {0, 9, 10, 20, 49, 50, 1500},
     collab \in BOOLEAN,
     age \in {0, 729, 730, 1824, 1825}}

InitSynth ==
  /\ AggIdle
  /\ ScoreIdle
  /\ RouteIdle
  /\ MockIdle
  /\ JobIdle
  /\ keyAtLoad = FALSE
  /\ keyNow = FALSE
  /\ profSignals \in SynthSamples
  /\ profPc = "start"
  /\ remoteCalls = 0
  /\ remoteOutcome = NotCalled
  /\ profResult = NoResult

NextSynth == ProfileWithoutKey

SpecSynth == InitSynth /\ [][NextSynth]_vars

SynthDone == profPc = "done" /\ profResult.isMock

SeniorCase ==
  /\ profSignals.account_age_days >= 5 * 365
  /\ profSignals.stars_total >= 50
  /\ profSignals.recent_commit_velocity * profSignals.active_days >= 20 * 30

MidCase ==
  /\ profSignals.account_age_days >= 2 * 365
  /\ \/ profSignals.stars_total >= 10
     \/ profSignals.recent_commit_velocity * profSignals.active_days >= 10 * 30

\* C15: the level of the deterministic profile is Senior exactly when
\* account_age_days / 365 >= 5, stars_total >= 50 and
\* (recent_commit_velocity / 30) * active_days >= 20; otherwise Mid exactly
\* when account_age_days / 365 >= 2 and (stars_total >= 10 or the activity
\* score >= 10); otherwise Junior; it is always one of the three.
C15_LevelThresholds ==
  SynthDone =>
    LET level == profResult.profile.experience_level.level
    IN  /\ level \in {"Junior", "Mid", "Senior"}
        /\ level = "Senior" <=> SeniorCase
        /\ level = "Mid" <=> (~SeniorCase /\ MidCase)
        /\ level = "Junior" <=> (~SeniorCase /\ ~MidCase)

\* Senior at exactly 5 years, 50 stars and an activity score of 20
C15_Witness ==
  /\ SynthDone
  /\ profSignals.account_age_days = 1825
  /\ profSignals.stars_total = 50
  /\ profSignals.recent_commit_velocity = 20
  /\ profSignals.active_days = 30
  /\ profResult.profile.experience_level.level = "Senior"


\* the weighted sum of the score in hundredths, computed exactly
ScoreHundredths ==
  2 * profSignals.stars_total + 15 * profSignals.recent_commit_velocity
  + 150 * profSignals.active_days
  + (IF profSignals.collaboration_hint THEN 1000 ELSE 0)
  + (CASE profResult.profile.experience_level.level = "Senior" -> 2000
       [] profResult.profile.experience_level.level = "Mid"    -> 1000
       [] OTHER                                                -> 500)

\* the exact sum rounded to the nearest integer, halves upwards
ExactRounded == (ScoreHundredths + 50) \div 100

ScoreBuckets ==
  LET ws == profResult.profile.workability_score
  IN  /\ ws.score \in 0..100
      /\ ws.rationale =
           (IF ws.score >= 75 THEN "Strong track record with consistent contributions."
            ELSE IF ws.score >= 50 THEN "Solid foundation with growth potential."
            ELSE "Early-stage developer building a portfolio.")

\* C16: the score of the deterministic profile is
\* min(100, round(stars_total / 10 * 0.2 + recent_commit_velocity / 2 * 0.3
\* + active_days * 1.5 + 10 if collaboration_hint + 20 / 10 / 5 for Senior /
\* Mid / Junior)), it lies in [0,100], and the rationale is the strong text
\* at 75 and above, the solid text at 50 and above, the early-stage text below.
C16_ScoreExact ==
  SynthDone =>
    /\ profResult.profile.workability_score.score = Min2(100, ExactRounded)
    /\ ScoreBuckets


\* the skills the languages of the signals give, by rank
LanguageSkills ==
  [i \in 1..Len(profSignals.primary_languages) |->
     [skill      |-> profSignals.primary_languages[i].name,
      confidence |-> CASE i = 1 -> "High" [] i = 2 -> "Med" [] OTHER -> "Low"]]

\* C18: the skills of the deterministic profile are one entry per primary
\* language (High for the first, Med for the second, Low from the third on),
\* then Web Development with confidence Med, never High, when project_types
\* contains web, then Data Analysis Med when it contains data, then Team
\* Collaboration Med when collaboration_hint is true, and Version Control
\* (Git) High as the last entry; there are at most 10 entries.
C18_SkillsList ==
  SynthDone =>
    /\ profResult.profile.skills =
         LanguageSkills
         \o (IF "web" \in profSignals.project_types
               THEN <<[skill |-> "Web Development", confidence |-> "Med"]>> ELSE <<>>)
         \o (IF "data" \in profSignals.project_types
               THEN <<[skill |-> "Data Analysis", confidence |-> "Med"]>> ELSE <<>>)
         \o (IF profSignals.collaboration_hint
               THEN <<[skill |-> "Team Collaboration", confidence |-> "Med"]>> ELSE <<>>)
         \o <<[skill |-> "Version Control (Git)", confidence |-> "High"]>>
    /\ Len(profResult.profile.skills) <= 10


HasLanguage(name) ==
  \E i \in 1..Len(profSignals.primary_languages) :
     profSignals.primary_languages[i].name = name

\* a language-specific role rule fired
LanguageRuleFired ==
  HasLanguage("JavaScript") \/ HasLanguage("TypeScript") \/ HasLanguage("Python")

\* the roles of the language rules and of the DevOps rule
RuleRoles ==
  (IF HasLanguage("JavaScript") \/ HasLanguage("TypeScript")
     THEN <<Role("Full-stack JavaScript Developer")>>
          \o (IF "web" \in profSignals.project_types
                THEN <<Role("Frontend Engineer")>> ELSE <<>>)
     ELSE <<>>)
  \o (IF HasLanguage("Python")
        THEN <<Role("Backend Developer (Python)")>>
             \o (IF "data" \in profSignals.project_types
                   THEN <<Role("Data Engineer")>> ELSE <<>>)
        ELSE <<>>)
  \o (IF "devops" \in profSignals.project_types
        THEN <<Role("DevOps Engineer")>> ELSE <<>>)

\* the role list when the library rule is reached
RolesSoFar ==
  IF RuleRoles = <<>>
    THEN <<FallbackRole(IF profSignals.primary_languages # <<>>
                          THEN profSignals.primary_languages[1].name
                          ELSE "Software")>>
    ELSE RuleRoles

LibraryRoom == "library" \in profSignals.project_types /\ Len(RolesSoFar) < 5

\* C19: when project_types contains library and the role list built so far
\* has fewer than 5 entries, SDK/Library Developer is appended to role_fits;
\* when the level is Senior and the list then has fewer than 5 entries,
\* Technical Lead is appended.
C19_RoomForRoles ==
  SynthDone =>
    LET roles == profResult.profile.role_fits
        n     == Len(RolesSoFar) + (IF LibraryRoom THEN 1 ELSE 0)
    IN  /\ LibraryRoom =>
             /\ Len(roles) > Len(RolesSoFar)
             /\ roles[Len(RolesSoFar) + 1] = Role("SDK/Library Developer")
        /\ (profResult.profile.experience_level.level = "Senior" /\ n < 5) =>
             /\ Len(roles) > n
             /\ roles[n + 1] = Role("Technical Lead")

\* C20: when no primary language is JavaScript, TypeScript or Python,
\* role_fits contains "<first primary language> Developer", or "Software
\* Developer" without a primary language, also when project_types contains
\* devops and the DevOps Engineer role was added.
C20_FallbackRole ==
  (SynthDone /\ ~LanguageRuleFired) =>
    Includes(profResult.profile.role_fits,
             FallbackRole(IF profSignals.primary_languages # <<>>
                            THEN profSignals.primary_languages[1].name
                            ELSE "Software"))

\* the place of a role in the order the rules are applied in
RoleRank(role) ==
  IF role = Role("Full-stack JavaScript Developer") THEN 1
  ELSE IF role = Role("Frontend Engineer") THEN 2
  ELSE IF role = Role("Backend Developer (Python)") THEN 3
  ELSE IF role = Role("Data Engineer") THEN 4
  ELSE IF role = Role("DevOps Engineer") THEN 5
  ELSE IF role = Role("SDK/Library Developer") THEN 7
  ELSE IF role = Role("Technical Lead") THEN 8
  ELSE 6

\* C21: role_fits of the deterministic profile is non-empty, has at most 5
\* entries, holds no role twice and lists the roles in the order
\* JavaScript/TypeScript roles, Python roles, DevOps Engineer, fallback,
\* SDK/Library Developer, Technical Lead.
C21_RoleFitsShape ==
  SynthDone =>
    LET roles == profResult.profile.role_fits
    IN  /\ Len(roles) >= 1
        /\ Len(roles) <= 5
        /\ \A i \in 1..Len(roles), j \in 1..Len(roles) :
              i < j => /\ roles[i] # roles[j]
                       /\ RoleRank(roles[i]) < RoleRank(roles[j])
        /\ \A i \in 1..Len(roles) :
              RoleRank(roles[i]) = 6 =>
                roles[i] = FallbackRole(IF profSignals.primary_languages # <<>>
                                          THEN profSignals.primary_languages[1].name
                                          ELSE "Software")

\* the fallback, the library role and Technical Lead in one list, and a list
\* of five
C21_Witness ==
  /\ SynthDone
  /\ profResult.profile.role_fits
       = <<FallbackRole("Go"), Role("SDK/Library Developer"), Role("Technical Lead")>>
  /\ profSignals.project_types = {"library"}


(***************************************************************************)
(* The two scorers applied to bounded inputs                               *)
(***************************************************************************)
MaxMust == 5

MaxNice == 2

Techs == {"python", "Go"}

TechLists(n) == UNION {[1..k -> Techs] : k \in 0..n}

ScoreSamples ==
  {SignalsOf(names, {}, velocity, 10, sc[1], sc[2], FALSE, 400, <<>>) :
     names \in {<<>>, <<"Python">>, <<"Python", "Go">>},
     velocity \in {14, 15, 20},
     sc \in {<<0, 0>>, <<50, 0>>, <<49, 15>>}}

Candidates ==
  [skills : {<<>>, <<"PYTHON">>,
             <<"go", "PYTHON", "rust", "javascript", "typescript", "Java", "ruby",
               "perl", "swift">>},
   seniority : {"Senior", "Mid"},
   experienceYears : {2, 3}]

\* jobs scored against live signals: every list of technologies
PostedJobs ==
  [stackMust : TechLists(MaxMust), stackNice : TechLists(MaxNice),
   seniority : {"Senior"}, experienceRequired : {3}]

MaxStack == 7

\* technologies a stored candidate may list, and technologies none lists
KnownTechs ==
  <<"python", "Go", "Rust", "JavaScript", "TypeScript", "java", "ruby", "perl", "swift">>

OtherTechs ==
  <<"cobol", "ada", "lisp", "forth", "apl", "basic", "pascal", "prolog", "algol">>

\* lists of l distinct technologies of which the first k are known ones
TechBlocks(n) ==
  {[i \in 1..l |-> IF i <= k THEN KnownTechs[i] ELSE OtherTechs[i - k]] :
     k \in 0..n, l \in 0..n}

\* jobs scored against stored candidates
StoredJobs ==
  [stackMust : TechBlocks(MaxStack), stackNice : TechBlocks(MaxStack),
   seniority : {"Senior"}, experienceRequired : {3}]

InitScore ==
  /\ AggIdle
  /\ ProfIdle
  /\ RouteIdle
  /\ MockIdle
  /\ JobIdle
  /\ scRubric \in {1, 2}
  /\ scSignals \in (IF scRubric = 1 THEN ScoreSamples ELSE {NoSignals})
  /\ scCandidate \in (IF scRubric = 2 THEN Candidates ELSE {NoCandidate})
  /\ scJob \in (IF scRubric = 1 THEN PostedJobs ELSE StoredJobs)
  /\ scPc = "start"
  /\ scResult = NoMatch

ScoreSignals ==
  /\ scPc = "start"
  /\ scRubric = 1
  /\ scResult' = scoreCandidate(scSignals, scJob)
  /\ scPc' = "done"
  /\ UNCHANGED <<scRubric, scSignals, scCandidate, scJob>>
  /\ UNCHANGED <<aggVars, profVars, routeVars, mockVars, jobVars>>

ScoreStored ==
  /\ scPc = "start"
  /\ scRubric = 2
  /\ scResult' = matchEngine_scoreCandidate(scCandidate, scJob)
  /\ scPc' = "done"
  /\ UNCHANGED <<scRubric, scSignals, scCandidate, scJob>>
  /\ UNCHANGED <<aggVars, profVars, routeVars, mockVars, jobVars>>

NextScore ==
  \/ ScoreSignals
  \/ ScoreStored

SpecScore == InitScore /\ [][NextScore]_vars

\* C4: the score returned by either scorer is a number in [0,100], for any
\* signals or candidate and any job, also one whose stackMust or stackNice
\* list is empty.
C4_ScoreWithinRange ==
  scPc = "done" =>
    /\ scRubric = 1 => scResult.score \in 0..100
    /\ scRubric = 2 =>
         /\ ~scResult.score.nan
         /\ NumAtLeast(scResult.score, 0)
         /\ ~NumAtLeast(scResult.score, 101)

\* t is one of the primary language names, ignoring case
FoundAmong(t, sig) ==
  \E i \in 1..Len(sig.primary_languages) :
     ToLower(sig.primary_languages[i].name) = ToLower(t)

\* the positions of techs with an entry found among the primary languages
FoundIn(techs, sig) == {i \in 1..Len(techs) : FoundAmong(techs[i], sig)}

ActivityHighlight == Text("Strong recent GitHub activity", <<>>, <<>>)

ActivityRisk == Text("Low recent GitHub activity", <<>>, <<>>)

RubricOneDone == scPc = "done" /\ scRubric = 1

\* C11: rubric 1 returns min(100, 15 for every stackMust entry found among
\* the primary language names ignoring case + 7 for every stackNice entry so
\* found + 15 if stars_total >= 50 or repo_count >= 15 + 15 if
\* recent_commit_velocity >= 15); with a velocity of 15 or more the highlight
\* 'Strong recent GitHub activity' is recorded and no 'Low recent GitHub
\* activity' risk, below 15 the risk is recorded and not the highlight.
C11_RubricOneScore ==
  RubricOneDone =>
    LET active == scSignals.recent_commit_velocity >= 15
        senior == scSignals.stars_total >= 50 \/ scSignals.repo_count >= 15
        total  == 15 * Cardinality(FoundIn(scJob.stackMust, scSignals))
                    + 7 * Cardinality(FoundIn(scJob.stackNice, scSignals))
                    + (IF senior THEN 15 ELSE 0) + (IF active THEN 15 ELSE 0)
    IN  /\ scResult.score = (IF total > 100 THEN 100 ELSE total)
        /\ active <=> Includes(scResult.highlights, ActivityHighlight)
        /\ active <=> ~Includes(scResult.risks, ActivityRisk)

\* a velocity of 20, a required "python" found in the language Python, a
\* preferred skill found, and the total below the clamp
C11_Witness ==
  /\ RubricOneDone
  /\ scSignals.recent_commit_velocity = 20
  /\ scJob.stackMust = <<"python", "Go">>
  /\ scJob.stackNice = <<"python">>
  /\ LangNames(scSignals) = <<"Python">>
  /\ scResult.score = 37
  /\ Includes(scResult.highlights, ActivityHighlight)

\* the label of a score under the descending thresholds
LabelOf(score) ==
  CASE score >= 85 -> "Excellent"
    [] score < 85 /\ score >= 70 -> "Strong"
    [] score < 70 /\ score >= 55 -> "Moderate"
    [] score < 55 /\ score >= 40 -> "Weak"
    [] score < 40 -> "Poor"

\* C12: in rubric 1 the returned fit is the label of the returned, clamped
\* score under the thresholds >= 85 Excellent, >= 70 Strong, >= 55 Moderate,
\* >= 40 Weak, else Poor, and the explanation carries the number of matched
\* required skills and that same fit label.
C12_RubricOneFit ==
  RubricOneDone =>
    /\ scResult.fit = LabelOf(scResult.score)
    /\ scResult.explanation.nums = <<Cardinality(FoundIn(scJob.stackMust, scSignals))>>
    /\ scResult.explanation.strs = <<scResult.fit>>

\* a score clamped to 100 and labelled Excellent, five required skills matched
C12_Witness ==
  /\ RubricOneDone
  /\ scResult.score = 100
  /\ scResult.fit = "Excellent"
  /\ scResult.explanation.nums = <<5>>
  /\ Len(scJob.stackMust) = 5

MatchHighlight(t) == Text("Strong match for required skill: %s", <<>>, <<t>>)

MissingRisk(t) == Text("Missing required skill: %s", <<>>, <<t>>)

\* the number of entries of seq equal to x
Occurrences(seq, x) == Cardinality({i \in 1..Len(seq) : seq[i] = x})

\* C13: in rubric 1 every entry t of job.stackMust gives exactly one of: the
\* highlight 'Strong match for required skill: t' with 15 points, when t is a
\* primary language name ignoring case, or the risk 'Missing required skill:
\* t' with no points; so a required skill that is the top language brings at
\* least 15 points, its highlight and no missing-skill risk.
C13_RequiredSkillOutcome ==
  RubricOneDone =>
    LET must  == scJob.stackMust
        found == FoundIn(must, scSignals)
    IN  /\ \A i \in 1..Len(must) :
             /\ Occurrences(scResult.highlights, MatchHighlight(must[i]))
                  = Cardinality({j \in found : must[j] = must[i]})
             /\ Occurrences(scResult.risks, MissingRisk(must[i]))
                  = Cardinality({j \in 1..Len(must) \ found : must[j] = must[i]})
             /\ Includes(scResult.highlights, MatchHighlight(must[i]))
                  # Includes(scResult.risks, MissingRisk(must[i]))
        /\ scResult.score >= (IF 15 * Cardinality(found) > 100
                                THEN 100 ELSE 15 * Cardinality(found))

\* stackMust = [python] against the top language Python: the highlight, no
\* missing-skill risk, at least 15 points
C13_Witness ==
  /\ RubricOneDone
  /\ scJob.stackMust = <<"python">>
  /\ scSignals.primary_languages # <<>>
  /\ scSignals.primary_languages[1].name = "Python"
  /\ Includes(scResult.highlights, MatchHighlight("python"))
  /\ ~Includes(scResult.risks, MissingRisk("python"))
  /\ scResult.score >= 15

RubricTwoDone == scPc = "done" /\ scRubric = 2

\* the number of entries of ts that equal a skill of the candidate, ignoring case
SkillMatches(ts, candidate) ==
  Cardinality({i \in 1..Len(ts) :
                 \E j \in 1..Len(candidate.skills) :
                    ToLower(candidate.skills[j]) = ToLower(ts[i])})

SeniorityPoints == IF scCandidate.seniority = scJob.seniority THEN 10 ELSE 0

ExperiencePoints ==
  IF scCandidate.experienceYears >= scJob.experienceRequired THEN 10 ELSE 0

\* the weighted sum of the rubric as the exact fraction WeightedNum / WeightedDen
WeightedDen == Len(scJob.stackMust) * Len(scJob.stackNice)

WeightedNum ==
  60 * SkillMatches(scJob.stackMust, scCandidate) * Len(scJob.stackNice)
  + 20 * SkillMatches(scJob.stackNice, scCandidate) * Len(scJob.stackMust)
  + (SeniorityPoints + ExperiencePoints) * WeightedDen

WeightedLabel ==
  IF WeightedNum >= 80 * WeightedDen THEN "Excellent"
  ELSE IF WeightedNum >= 60 * WeightedDen THEN "Strong"
  ELSE IF WeightedNum >= 40 * WeightedDen THEN "Moderate"
  ELSE "Weak"

\* C14: for a job with at least one must-have and one nice-to-have skill,
\* rubric 2 returns the rounded value of 60 * matched must-haves / must-haves
\* + 20 * matched nice-to-haves / nice-to-haves + 10 for equal seniority
\* + 10 for enough experience years, skills compared ignoring case, and the
\* label is Excellent when that value is at least 80, Strong at 60, Moderate
\* at 40 and Weak below.
C14_RubricTwoWeighted ==
  RubricTwoDone /\ WeightedDen > 0 =>
    /\ ~scResult.score.nan
    /\ IntOf(scResult.score) = (2 * WeightedNum + WeightedDen) \div (2 * WeightedDen)
    /\ scResult.fitLabel = WeightedLabel

\* the band of a whole score under the thresholds 80 / 60 / 40
BandOf(n) ==
  IF n >= 80 THEN "Excellent"
  ELSE IF n >= 60 THEN "Strong"
  ELSE IF n >= 40 THEN "Moderate"
  ELSE "Weak"

\* C27: the fitLabel rubric 2 returns agrees with the rounded score it
\* returns: Excellent for a score of at least 80, Strong for at least 60,
\* Moderate for at least 40, and never a lower band than the score indicates.
C27_LabelAgreesWithScore ==
  (RubricTwoDone /\ ~scResult.score.nan) =>
    scResult.fitLabel = BandOf(IntOf(scResult.score))


(***************************************************************************)
(* services/github: the user and the repository-list fetchers              *)
(***************************************************************************)
Resolved(v) == [ok |-> TRUE, message |-> "", value |-> v]

Rejected(message) == [ok |-> FALSE, message |-> message, value |-> <<>>]

UpstreamStatuses == {"200", "404", "403", "500"}

\* as fetchUserRepos, with the 403 answer rethrown as it came
fetchUserRepos_Rethrown(http, data) ==
  IF http = "200" THEN Resolved(data) ELSE Rejected("Request failed")

fetchGitHubUser(http, data) ==
  CASE http = "200" -> Resolved(data)
    [] http = "404" -> Rejected("USER_NOT_FOUND")
    [] http = "403" -> Rejected("RATE_LIMIT")
    [] OTHER        -> Rejected("Request failed")

fetchUserRepos(http, data) ==
  CASE http = "200" -> Resolved(data)
    [] http = "403" -> Rejected("RATE_LIMIT")
    [] OTHER        -> Rejected("Request failed")

(***************************************************************************)
(* routes/analyze: GET /api/analyze/:username                              *)
(***************************************************************************)
MaxRequests == 1

MaxClock == 3

\* 6 * 60 * 60 * 1000 ms, in ticks of three hours
CacheTicks == 2

RouteTicksPerDay == 4 * CacheTicks

\* the time aggregateSignals reads when the route's clock shows c
AggNow(c) == Today * DayTicks + (c * DayTicks) \div RouteTicksPerDay

\* String.prototype.trim on the strings of the model
Trim(str) ==
  CASE str = " Octo" -> "Octo"
    [] str = " "     -> ""
    [] OTHER         -> str

\* (req.params.username || "").trim().toLowerCase()
UsernameOf(param) == ToLower(Trim(param))

Params == {" Octo", "hubot", " "}

\* the repositories the hosting service lists for a user
HostedKinds(username) == IF username = "octo" THEN <<4>> ELSE <<>>

\* aggregateSignals as one call, the languages requests all answered or all
\* failed, the commits requests likewise
aggregateSignals(usr, rs, ups, httpL, httpC, nowT) ==
  LET top   == TopRepos(rs)
      basic == BasicSignals(top)
      fs    == [i \in 1..Len(top) |->
                  [languages |-> fetchRepoLanguages(httpL, ups[top[i].name].langs),
                   commits   |-> fetchRepoCommits(httpC, ups[top[i].name].commits)]]
  IN  Aggregate(usr, rs, top, basic, ResolvedRepoData(fs), nowT)

\* createWorkabilityProfile as one call; the client exists when the key is set
createWorkabilityProfile(key, outcome, sig) ==
  IF isOpenAIConfigured(key) THEN OnRemote(outcome, sig) ELSE Fallback(sig)

RouteRemoteOutcomes == {Thrown("error"), Parsed(GoodReply)}

NoResponse ==
  [status |-> 0, cached |-> FALSE, username |-> "", signals |-> NoSignals,
   profile |-> <<>>, isMock |-> FALSE, error |-> ""]

ErrorResponse(status, error) == [NoResponse EXCEPT !.status = status, !.error = error]

\* res.json({username, cached, signals, profile, isMock})
OkResponse(username, cached, sig, profile, isMock) ==
  [status |-> 200, cached |-> cached, username |-> username, signals |-> sig,
   profile |-> profile, isMock |-> isMock, error |-> ""]

\* Analysis.create({username, signals, profile, isMock}), timestamps: true
AnalysisRecord(username, sig, profile, isMock, createdAt) ==
  [username |-> username, signals |-> sig, profile |-> profile,
   isMock |-> isMock, createdAt |-> createdAt]

\* the records matching {username, createdAt: {$gte: since}}
Fresh(st, username, since) ==
  {st[i] : i \in {j \in 1..Len(st) :
                    st[j].username = username /\ st[j].createdAt >= since}}

\* as FindOne, sorted by createdAt ascending
FindOne_Oldest(matches) ==
  {rec \in matches : \A o \in matches : o.createdAt >= rec.createdAt}

\* findOne(...).sort({createdAt: -1}): a match with the latest createdAt
FindOne(matches) ==
  {rec \in matches : \A o \in matches : o.createdAt <= rec.createdAt}

NewRequest ==
  [pc |-> "new", param |-> "", username |-> "", since |-> 0,
   lookup |-> "none", fresh |-> {}, userHttp |-> "none", reposHttp |-> "none",
   user |-> [login |-> "", created_at |-> 0], repos |-> <<>>,
   signals |-> NoSignals, result |-> NoResult,
   fetches |-> 0, engine |-> 0, remote |-> 0, saves |-> 0, save |-> "none",
   response |-> NoResponse]

\* records earlier requests left: for octo at tick 0 with every fetch failed
\* and the deterministic profile, for octo at tick 1 with the service's
\* profile, for hubot at tick 1
StoredSamples ==
  LET usr  == CHOOSE u \in Users : TRUE
      sig0 == aggregateSignals(usr, ReposOf(<<4>>), UpstreamOf(<<4>>), "error", "error", AggNow(0))
      sig1 == aggregateSignals(usr, ReposOf(<<4>>), UpstreamOf(<<4>>), "ok", "ok", AggNow(1))
      sigH == aggregateSignals(usr, <<>>, <<>>, "ok", "ok", AggNow(1))
  IN  <<AnalysisRecord("octo", sig0, generateMockProfile(sig0), TRUE, 0),
        AnalysisRecord("octo", sig1, GoodReply, FALSE, 1),
        AnalysisRecord("hubot", sigH, generateMockProfile(sigH), TRUE, 1)>>

InitialStores ==
  { [i \in 1..Len(kept) |-> StoredSamples[kept[i]]] :
      kept \in {<<>>, <<1>>, <<1, 2>>, <<1, 3>>} }

InitRoute ==
  /\ AggIdle
  /\ ProfIdle
  /\ ScoreIdle
  /\ MockIdle
  /\ JobIdle
  /\ rtClock = 1
  /\ rtKey \in BOOLEAN
  /\ store \in InitialStores
  /\ reqs = [r \in 1..MaxRequests |-> NewRequest]

\* time passes
RouteTick ==
  /\ rtClock < MaxClock
  /\ rtClock' = rtClock + 1
  /\ UNCHANGED <<rtKey, store, reqs>>
  /\ UNCHANGED <<aggVars, profVars, scoreVars, mockVars, jobVars>>

\* lines 28-48: the request arrives (requests are numbered as they arrive)
RouteStart(r) ==
  /\ reqs[r].pc = "new"
  /\ IF r = 1 THEN TRUE ELSE reqs[r - 1].pc # "new"
  /\ \E param \in Params :
       LET username == UsernameOf(param)
       IN  reqs' = [reqs EXCEPT ![r] =
             IF username = ""
               THEN [@ EXCEPT !.pc = "done", !.param = param,
                              !.response = ErrorResponse(400, "Username is required.")]
               ELSE [@ EXCEPT !.pc = "lookup", !.param = param,
                              !.username = username,
                              !.since = rtClock - CacheTicks]]
  /\ UNCHANGED <<rtClock, rtKey, store>>
  /\ UNCHANGED <<aggVars, profVars, scoreVars, mockVars, jobVars>>

\* lines 44-73: the lookup settles; a hit is answered, a miss or a failed
\* lookup goes on to fetchGitHubUser.  The field fresh keeps the records
\* that matched at this moment, also when the lookup failed.
CacheLookup(r) ==
  /\ reqs[r].pc = "lookup"
  /\ \E outcome \in {"ok", "throw"} :
       LET q     == reqs[r]
           fresh == Fresh(store, q.username, q.since)
       IN  IF outcome = "ok" /\ fresh # {}
             THEN \E rec \in FindOne(fresh) :
                    reqs' = [reqs EXCEPT ![r] =
                      [@ EXCEPT !.pc = "done", !.lookup = outcome, !.fresh = fresh,
                                !.response = OkResponse(q.username, TRUE, rec.signals,
                                                        rec.profile, rec.isMock)]]
             ELSE reqs' = [reqs EXCEPT ![r] =
                    [@ EXCEPT !.pc = "user", !.lookup = outcome, !.fresh = fresh,
                              !.fetches = @ + 1]]
  /\ UNCHANGED <<rtClock, rtKey, store>>
  /\ UNCHANGED <<aggVars, profVars, scoreVars, mockVars, jobVars>>

\* lines 73-89: fetchGitHubUser settles
UserSettles(r) ==
  /\ reqs[r].pc = "user"
  /\ \E http \in UpstreamStatuses :
       LET res == fetchGitHubUser(http, CHOOSE u \in Users : TRUE)
       IN  reqs' = [reqs EXCEPT ![r] =
             IF res.ok
               THEN [@ EXCEPT !.pc = "repos", !.userHttp = http, !.user = res.value,
                              !.fetches = @ + 1]
             ELSE IF res.message = "USER_NOT_FOUND"
               THEN [@ EXCEPT !.pc = "done", !.userHttp = http,
                              !.response = ErrorResponse(404, "GitHub user not found.")]
             ELSE IF res.message = "RATE_LIMIT"
               THEN [@ EXCEPT !.pc = "done", !.userHttp = http,
                              !.response = ErrorResponse(429, "GitHub rate limit exceeded. Add a GitHub token to your .env file.")]
             ELSE [@ EXCEPT !.pc = "done", !.userHttp = http,
                            !.response = ErrorResponse(500, "Failed to analyze GitHub profile. Try again later.")]]
  /\ UNCHANGED <<rtClock, rtKey, store>>
  /\ UNCHANGED <<aggVars, profVars, scoreVars, mockVars, jobVars>>

\* lines 89-105: fetchUserRepos settles
ReposSettle(r) ==
  /\ reqs[r].pc = "repos"
  /\ \E http \in UpstreamStatuses :
       LET res == fetchUserRepos(http, ReposOf(HostedKinds(reqs[r].username)))
       IN  reqs' = [reqs EXCEPT ![r] =
             IF res.ok
               THEN [@ EXCEPT !.pc = "signals", !.reposHttp = http, !.repos = res.value]
             ELSE IF res.message = "RATE_LIMIT"
               THEN [@ EXCEPT !.pc = "done", !.reposHttp = http,
                              !.response = ErrorResponse(429, "GitHub rate limit exceeded while fetching repos. Please try again later.")]
             ELSE [@ EXCEPT !.pc = "done", !.reposHttp = http,
                            !.response = ErrorResponse(500, "Failed to analyze GitHub profile. Try again later.")]]
  /\ UNCHANGED <<rtClock, rtKey, store>>
  /\ UNCHANGED <<aggVars, profVars, scoreVars, mockVars, jobVars>>

\* line 105: aggregateSignals resolves
SignalsResolve(r) ==
  /\ reqs[r].pc = "signals"
  /\ \E http \in HttpOutcomes :
       LET q == reqs[r]
       IN  reqs' = [reqs EXCEPT ![r] =
             [@ EXCEPT !.pc = "profile",
                       !.signals = aggregateSignals(q.user, q.repos,
                                     UpstreamOf(HostedKinds(q.username)),
                                     http, http, AggNow(rtClock)),
                       !.engine = @ + 1,
                       !.fetches = @ + 2 * Len(TopRepos(q.repos))]]
  /\ UNCHANGED <<rtClock, rtKey, store>>
  /\ UNCHANGED <<aggVars, profVars, scoreVars, mockVars, jobVars>>

\* line 112: createWorkabilityProfile resolves
ProfileResolves(r) ==
  /\ reqs[r].pc = "profile"
  /\ \E outcome \in (IF rtKey THEN RouteRemoteOutcomes ELSE {NotCalled}) :
       reqs' = [reqs EXCEPT ![r] =
         [@ EXCEPT !.pc = "save",
                   !.result = createWorkabilityProfile(rtKey, outcome, reqs[r].signals),
                   !.remote = @ + (IF rtKey THEN 1 ELSE 0)]]
  /\ UNCHANGED <<rtClock, rtKey, store>>
  /\ UNCHANGED <<aggVars, profVars, scoreVars, mockVars, jobVars>>

\* as SaveSettles, with a rejected Analysis.create left to the outer catch
SaveSettles_Uncaught(r) ==
  /\ reqs[r].pc = "save"
  /\ \E outcome \in {"ok", "throw"} :
       LET q == reqs[r]
       IN  /\ store' = IF outcome = "ok"
                         THEN Append(store, AnalysisRecord(q.username, q.signals,
                                              q.result.profile, q.result.isMock, rtClock))
                         ELSE store
           /\ reqs' = [reqs EXCEPT ![r] =
                [@ EXCEPT !.pc = "done", !.saves = @ + 1, !.save = outcome,
                          !.response =
                             IF outcome = "ok"
                               THEN OkResponse(q.username, FALSE, q.signals,
                                               q.result.profile, q.result.isMock)
                               ELSE ErrorResponse(500, "Failed to analyze GitHub profile. Try again later.")]]
  /\ UNCHANGED <<rtClock, rtKey>>
  /\ UNCHANGED <<aggVars, profVars, scoreVars, mockVars, jobVars>>

\* lines 119-141: Analysis.create settles and the answer is sent
SaveSettles(r) ==
  /\ reqs[r].pc = "save"
  /\ \E outcome \in {"ok", "throw"} :
       LET q == reqs[r]
       IN  /\ store' = IF outcome = "ok"
                         THEN Append(store, AnalysisRecord(q.username, q.signals,
                                              q.result.profile, q.result.isMock, rtClock))
                         ELSE store
           /\ reqs' = [reqs EXCEPT ![r] =
                [@ EXCEPT !.pc = "done", !.saves = @ + 1, !.save = outcome,
                          !.response = OkResponse(q.username, FALSE, q.signals,
                                                  q.result.profile, q.result.isMock)]]
  /\ UNCHANGED <<rtClock, rtKey>>
  /\ UNCHANGED <<aggVars, profVars, scoreVars, mockVars, jobVars>>

NextRoute ==
  \/ RouteTick
  \/ \E r \in 1..MaxRequests : RouteStart(r)
  \/ \E r \in 1..MaxRequests : CacheLookup(r)
  \/ \E r \in 1..MaxRequests : UserSettles(r)
  \/ \E r \in 1..MaxRequests : ReposSettle(r)
  \/ \E r \in 1..MaxRequests : SignalsResolve(r)
  \/ \E r \in 1..MaxRequests : ProfileResolves(r)
  \/ \E r \in 1..MaxRequests : SaveSettles(r)

SpecRoute == InitRoute /\ [][NextRoute]_vars

\* requests in flight at the same time, on an empty Analysis collection
MaxOverlap == 2

InitOverlap ==
  /\ AggIdle
  /\ ProfIdle
  /\ ScoreIdle
  /\ MockIdle
  /\ JobIdle
  /\ rtClock = 1
  /\ rtKey = FALSE
  /\ store = <<>>
  /\ reqs = [r \in 1..MaxOverlap |-> NewRequest]

NextOverlap ==
  \/ RouteTick
  \/ \E r \in 1..MaxOverlap : RouteStart(r)
  \/ \E r \in 1..MaxOverlap : CacheLookup(r)
  \/ \E r \in 1..MaxOverlap : UserSettles(r)
  \/ \E r \in 1..MaxOverlap : ReposSettle(r)
  \/ \E r \in 1..MaxOverlap : SignalsResolve(r)
  \/ \E r \in 1..MaxOverlap : ProfileResolves(r)
  \/ \E r \in 1..MaxOverlap : SaveSettles(r)

SpecOverlap == InitOverlap /\ [][NextOverlap]_vars

(***************************************************************************)
(* routes/analyze with the engine's fan-out: one request followed from its  *)
(* arrival to its response, the engine's fetches settling one by one        *)
(***************************************************************************)
InitAnalyze ==
  /\ AggIdle
  /\ ProfIdle
  /\ ScoreIdle
  /\ MockIdle
  /\ JobIdle
  /\ rtClock = 1
  /\ rtKey \in BOOLEAN
  /\ store \in InitialStores
  /\ reqs = <<NewRequest>>

\* line 105, part_003 lines 42-97: aggregateSignals is called and runs up to
\* its await, every fetch of the selected repositories issued
EngineCalled(r) ==
  /\ reqs[r].pc = "signals"
  /\ aggPc = "idle"
  /\ LET q   == reqs[r]
         top == TopRepos(q.repos)
     IN  /\ now' = AggNow(rtClock)
         /\ user' = q.user
         /\ repos' = q.repos
         /\ upstream' = UpstreamOf(HostedKinds(q.username))
         /\ aggLocal' = [top |-> top, basic |-> BasicSignals(top)]
         /\ fetches' = [i \in 1..Len(top) |-> [languages |-> Pending, commits |-> Pending]]
         /\ fetchLog' = {<<"languages", top[i].name>> : i \in 1..Len(top)}
                          \cup {<<"commits", top[i].name>> : i \in 1..Len(top)}
         /\ reqs' = [reqs EXCEPT ![r] =
               [@ EXCEPT !.pc = "engine", !.engine = @ + 1,
                         !.fetches = @ + 2 * Len(top)]]
  /\ aggPc' = "fetching"
  /\ UNCHANGED <<settleOrder, signals>>
  /\ UNCHANGED <<rtClock, rtKey, store>>
  /\ UNCHANGED <<profVars, scoreVars, mockVars, jobVars>>

\* line 105: the await of aggregateSignals gets the resolved signals
SignalsArrive(r) ==
  /\ reqs[r].pc = "engine"
  /\ aggPc = "done"
  /\ reqs' = [reqs EXCEPT ![r] = [@ EXCEPT !.pc = "profile", !.signals = signals]]
  /\ UNCHANGED <<rtClock, rtKey, store>>
  /\ UNCHANGED <<aggVars, profVars, scoreVars, mockVars, jobVars>>

NextAnalyze ==
  \/ RouteTick
  \/ \E r \in DOMAIN reqs : RouteStart(r)
  \/ \E r \in DOMAIN reqs : CacheLookup(r)
  \/ \E r \in DOMAIN reqs : UserSettles(r)
  \/ \E r \in DOMAIN reqs : ReposSettle(r)
  \/ \E r \in DOMAIN reqs : EngineCalled(r)
  \/ \E i \in 1..Len(fetches) : SettleLanguages(i)
  \/ \E i \in 1..Len(fetches) : SettleCommits(i)
  \/ AggFinish
  \/ \E r \in DOMAIN reqs : SignalsArrive(r)
  \/ \E r \in DOMAIN reqs : ProfileResolves(r)
  \/ \E r \in DOMAIN reqs : SaveSettles(r)

\* every upstream call that has been issued settles, and a continuation
\* that is ready runs; no request is required to arrive and no time to pass.
\* ProfileResolves(r) is enabled exactly while request r waits at "profile"
\* and is the only step that ends the wait, so its weak fairness is the
\* condition that the request does not wait there for ever; it is written
\* in that form.
UpstreamSettles ==
  /\ WF_vars(\E r \in DOMAIN reqs : CacheLookup(r))
  /\ WF_vars(\E r \in DOMAIN reqs : UserSettles(r))
  /\ WF_vars(\E r \in DOMAIN reqs : ReposSettle(r))
  /\ WF_vars(\E r \in DOMAIN reqs : EngineCalled(r))
  /\ WF_vars(\E i \in 1..Len(fetches) : SettleLanguages(i))
  /\ WF_vars(\E i \in 1..Len(fetches) : SettleCommits(i))
  /\ WF_vars(AggFinish)
  /\ WF_vars(\E r \in DOMAIN reqs : SignalsArrive(r))
  /\ []<>(reqs[1].pc # "profile")
  /\ WF_vars(\E r \in DOMAIN reqs : SaveSettles(r))

SpecAnalyze == InitAnalyze /\ [][NextAnalyze]_vars /\ UpstreamSettles

\* C30: when every upstream call settles, a request that has arrived is
\* eventually answered; an answer once sent is the only one (the handler is
\* finished exactly when a response has been sent, and the response never
\* changes afterwards); and the request gets past the engine only when
\* every fetch the engine issued, two for each selected repository, has
\* settled.
C30_EventuallyOneResponse ==
  /\ (reqs[1].pc # "new") ~> (reqs[1].pc = "done" /\ reqs[1].response.status # 0)
  /\ [](reqs[1].pc = "done" <=> reqs[1].response.status # 0)
  /\ [][reqs[1].response.status # 0 => reqs'[1] = reqs[1]]_vars
  /\ []((reqs[1].engine = 1 /\ reqs[1].pc \in {"profile", "save", "done"})
          => /\ AllSettled
             /\ Len(fetches) = Len(TopRepos(reqs[1].repos))
             /\ reqs[1].fetches = 2 + 2 * Len(fetches)
             /\ reqs[1].signals = signals)

\* the request answered with a computed result after both fetches of its
\* repository have settled, the commits first and the languages with a
\* failure
C30_Witness ==
  /\ reqs[1].pc = "done"
  /\ reqs[1].response.status = 200
  /\ ~reqs[1].response.cached
  /\ Len(fetches) = 1
  /\ AllSettled
  /\ fetches[1].languages.failed
  /\ ~fetches[1].commits.failed
  /\ reqs[1].response.signals = signals

\* the matching records with the latest createdAt
Latest(matches) ==
  {rec \in matches : \A o \in matches : o.createdAt <= rec.createdAt}

\* the answer carries the signals, profile and isMock of a record of recs
ServedFrom(q, recs) ==
  /\ q.response.status = 200
  /\ q.response.cached
  /\ q.response.username = q.username
  /\ \E rec \in recs :
       /\ rec.username = q.username
       /\ q.response.signals = rec.signals
       /\ q.response.profile = rec.profile
       /\ q.response.isMock = rec.isMock

EngineIdle(q) ==
  /\ q.engine = 0
  /\ q.remote = 0
  /\ q.saves = 0
  /\ q.signals = NoSignals

\* C8: a 404 from the user lookup is answered with 404, a 403 from the user
\* lookup or from the repository listing with 429, any other upstream
\* failure with 500; a request answered with 404 or 429 has computed no
\* signals, called no reasoning service and saved no record, and 404 and 429
\* are given for those upstream answers only.
C8_UpstreamFailuresDistinct ==
  \A r \in 1..MaxRequests :
    LET q == reqs[r]
    IN  /\ q.userHttp = "404" => q.pc = "done" /\ q.response.status = 404
        /\ (q.userHttp = "403" \/ q.reposHttp = "403") =>
              q.pc = "done" /\ q.response.status = 429
        /\ (q.userHttp = "500" \/ q.reposHttp \in {"404", "500"}) =>
              q.pc = "done" /\ q.response.status = 500
        /\ q.response.status = 404 => q.userHttp = "404"
        /\ q.response.status = 429 => q.userHttp = "403" \/ q.reposHttp = "403"
        /\ q.response.status \in {404, 429} => EngineIdle(q)

\* a request answered with 429 for a rate-limited repository listing, after
\* a cache miss and a successful user lookup
C8_Witness ==
  \E r \in 1..MaxRequests :
    /\ reqs[r].pc = "done"
    /\ reqs[r].userHttp = "200"
    /\ reqs[r].reposHttp = "403"
    /\ reqs[r].response.status = 429
    /\ reqs[r].fetches = 2

\* C9 as stated: whenever the store holds a record for the username created
\* within the 6 hours before the request, the answer is the cached one, of
\* the most recent such record, and the request fetches nothing, calls no
\* reasoning service and saves nothing; without such a record no record is
\* served.
C9_FreshRecordAlwaysServed ==
  \A r \in 1..MaxRequests :
    LET q == reqs[r]
    IN  q.lookup # "none" =>
          IF q.fresh # {}
            THEN /\ q.pc = "done"
                 /\ ServedFrom(q, Latest(q.fresh))
                 /\ q.fetches = 0
                 /\ EngineIdle(q)
            ELSE ~q.response.cached

\* C9 amended: when the cache lookup succeeds and finds records for the
\* trimmed, lower-cased username with createdAt >= (start of the request -
\* 6 hours), the answer is the cached one and carries the signals, profile
\* and isMock of such a record with the latest createdAt, and the request
\* fetches nothing, calls no reasoning service and saves nothing; when the
\* lookup finds no such record or fails, no record is served, the user lookup
\* is issued, and the engine is invoked once both listings have succeeded.
C9_FreshRecordServedOnLookupSuccess ==
  \A r \in 1..MaxRequests :
    LET q == reqs[r]
    IN  q.lookup # "none" =>
          IF q.lookup = "ok" /\ q.fresh # {}
            THEN /\ q.pc = "done"
                 /\ ServedFrom(q, Latest(q.fresh))
                 /\ \A rec \in q.fresh : rec.createdAt >= q.since
                 /\ q.fetches = 0
                 /\ EngineIdle(q)
            ELSE /\ ~q.response.cached
                 /\ q.fetches >= 1
                 /\ (q.reposHttp = "200" /\ q.pc \in {"profile", "save", "done"}) =>
                       q.engine = 1

\* a request for " Octo" answered from the later of two fresh records of octo
C9_Witness ==
  \E r \in 1..MaxRequests :
    /\ reqs[r].pc = "done"
    /\ reqs[r].param # reqs[r].username
    /\ reqs[r].response.cached
    /\ Cardinality({rec.createdAt : rec \in reqs[r].fresh}) >= 2

\* C29: a failure of the result store does not change the outcome of a
\* request: after a cache lookup that threw the request goes on as after a
\* miss (nothing is served from the store and the user lookup is issued),
\* after a save that threw the answer is the successful one with cached
\* false and the computed signals, profile and isMock, and a 500 answer is
\* given for an upstream failure only.
C29_StoreFailuresAbsorbed ==
  \A r \in 1..MaxRequests :
    LET q == reqs[r]
    IN  /\ q.lookup = "throw" =>
              /\ ~q.response.cached
              /\ q.fetches >= 1
              /\ q.pc \in {"user", "repos", "signals", "profile", "save", "done"}
              /\ q.pc = "done" => q.userHttp # "none"
        /\ q.save = "throw" =>
              /\ q.pc = "done"
              /\ q.response = OkResponse(q.username, FALSE, q.signals,
                                         q.result.profile, q.result.isMock)
              /\ q.signals # NoSignals
        /\ q.response.status = 500 =>
              \/ q.userHttp = "500"
              \/ q.userHttp = "200" /\ q.reposHttp \in {"404", "500"}

\* a request whose lookup threw although the store held a fresh record and
\* whose save threw as well, answered with the computed result
C29_Witness ==
  \E r \in 1..MaxRequests :
    /\ reqs[r].pc = "done"
    /\ reqs[r].lookup = "throw"
    /\ reqs[r].fresh # {}
    /\ reqs[r].save = "throw"
    /\ reqs[r].response.status = 200
    /\ ~reqs[r].response.cached
    /\ reqs[r].response.signals.repo_count = 1

\* C28: for one username the analyze route invokes the engine and creates an
\* Analysis record at most once per 6-hour freshness window, also when
\* requests for that username overlap in time.
C28_OncePerWindow ==
  /\ \A i \in 1..Len(store), j \in 1..Len(store) :
        (i < j /\ store[i].username = store[j].username)
          => store[j].createdAt - store[i].createdAt > CacheTicks
  /\ \A r \in 1..Len(reqs), t \in 1..Len(reqs) :
        (r < t /\ reqs[r].username = reqs[t].username
               /\ reqs[r].engine > 0 /\ reqs[t].engine > 0)
          => reqs[t].since - reqs[r].since > CacheTicks


(***************************************************************************)
(* services/aiService: buildMockAnalysis, the fields of its result that    *)
(* are derived from the seed                                               *)
(***************************************************************************)
\* a || b on numbers: b when a is absent or 0
OrElse(a, b) == IF a = Missing \/ a = 0 THEN b ELSE a

\* languages[0]?.lang || "JavaScript"
PrimaryLang(gs) == IF gs.languages = <<>> THEN "JavaScript" ELSE gs.languages[1].lang

\* stats.repoCount || repos.length || 0
RepoCount(gs) == OrElse(OrElse(gs.stats.repoCount, Len(gs.repos)), 0)

\* stats.followers || userProfile.followers || 0
Followers(gs) == OrElse(OrElse(gs.stats.followers, gs.userProfile.followers), 0)

\* stats.totalCommits || Math.round(repoCount * 20 + (recentActiveRepos || 0) * 15);
\* the counts are integers, which Math.round leaves as they are
TotalCommits(gs) ==
  OrElse(gs.stats.totalCommits,
         RepoCount(gs) * 20 + OrElse(gs.stats.recentActiveRepos, 0) * 15)

styleTemplates(primaryLang) ==
  << Text("Shows consistent growth with a steady commit pattern and focus on %s.",
          <<>>, <<primaryLang>>),
     Text("Demonstrates curiosity through diverse small projects and regular experimentation.",
          <<>>, <<>>),
     Text("Appears pragmatic, prioritizing working prototypes and incremental improvement.",
          <<>>, <<>>),
     Text("Seems collaborative with code structured cleanly across several repositories.",
          <<>>, <<>>),
     Text("Shows signs of disciplined engineering habits with frequent commit bursts.",
          <<>>, <<>>) >>

\* (followers + repoCount + totalCommits) || 0
IndexSeed(gs) == OrElse(Followers(gs) + RepoCount(gs) + TotalCommits(gs), 0)

\* styleTemplates[i]: undefined outside 0..4
TemplateAt(templates, i) ==
  IF i \in 0..(Len(templates) - 1) THEN templates[i + 1]
  ELSE Text("undefined", <<>>, <<>>)

buildMockAnalysis(gs, isMock) ==
  LET totalCommits == TotalCommits(gs)
      templates    == styleTemplates(PrimaryLang(gs))
  IN  [experienceLevel |-> IF totalCommits > 800 THEN "Senior"
                           ELSE IF totalCommits > 250 THEN "Mid-level"
                           ELSE "Junior",
       workStyle       |-> TemplateAt(templates, IndexSeed(gs) % Len(templates)),
       isMock          |-> isMock]

(***************************************************************************)
(* The deterministic strategy called repeatedly while the clock and the    *)
(* random source change                                                    *)
(***************************************************************************)
MaxMockCalls == 2

MockCallSamples ==
  {SignalsOf(names, types, 40, 31, stars, 12, FALSE, 1825, <<>>) :
     names \in {<<>>, <<"JavaScript", "Python", "Go">>},
     types \in {{"web", "data", "library"}},
     stars \in {50}}

GithubSignals(repoCount, followers, totalCommits, profileFollowers, nRepos, langs) ==
  [stats       |-> [repoCount |-> repoCount, followers |-> followers,
                    totalCommits |-> totalCommits, recentActiveRepos |-> 1],
   languages   |-> [i \in 1..Len(langs) |-> [lang |-> langs[i]]],
   userProfile |-> [followers |-> profileFollowers],
   repos       |-> [i \in 1..nRepos |-> i]]

GithubSignalsSamples ==
  { GithubSignals(Missing, Missing, Missing, Missing, 0, <<>>),
    GithubSignals(Missing, 0, Missing, 4, 2, <<"Python">>),
    GithubSignals(2, 4, 55, Missing, 0, <<"Python", "Go">>),
    GithubSignals(0, 7, 900, 4, 2, <<>>) }

InitMock ==
  /\ AggIdle
  /\ ProfIdle
  /\ ScoreIdle
  /\ RouteIdle
  /\ JobIdle
  /\ mkClock = 0
  /\ mkSeed \in {0, 1}
  /\ mkCalls = 0
  /\ mkLog = <<>>
  /\ mkStyleLog = <<>>

\* time passes and the random source moves on
MockEnvStep ==
  /\ mkClock < MaxMockCalls
  /\ mkClock' = mkClock + 1
  /\ mkSeed' \in {0, 1}
  /\ UNCHANGED <<mkCalls, mkLog, mkStyleLog>>
  /\ UNCHANGED <<aggVars, profVars, scoreVars, routeVars, jobVars>>

CallGenerateMockProfile ==
  /\ Len(mkLog) < MaxMockCalls
  /\ \E sig \in MockCallSamples :
       mkLog' = Append(mkLog, [signals |-> sig, profile |-> generateMockProfile(sig),
                               at |-> mkClock, seed |-> mkSeed])
  /\ mkCalls' = mkCalls + 1
  /\ UNCHANGED <<mkClock, mkSeed, mkStyleLog>>
  /\ UNCHANGED <<aggVars, profVars, scoreVars, routeVars, jobVars>>

CallBuildMockAnalysis ==
  /\ Len(mkStyleLog) < MaxMockCalls
  /\ \E gs \in GithubSignalsSamples :
       mkStyleLog' = Append(mkStyleLog, [input |-> gs, result |-> buildMockAnalysis(gs, TRUE)])
  /\ mkCalls' = mkCalls + 1
  /\ UNCHANGED <<mkClock, mkSeed, mkLog>>
  /\ UNCHANGED <<aggVars, profVars, scoreVars, routeVars, jobVars>>

NextMock ==
  \/ MockEnvStep
  \/ CallGenerateMockProfile
  \/ CallBuildMockAnalysis

SpecMock == InitMock /\ [][NextMock]_vars

\* the three numbers the template selection adds up
SeedValues(gs) == <<Followers(gs), RepoCount(gs), TotalCommits(gs)>>

MaxUsernames == 2

\* the Job collection: the id of a stored job, an id of no job, and an id
\* Job.findById rejects
JobIds == {"j1", "j2", "not-an-id"}

StoredJob == [id |-> "j1", stackMust |-> <<"Python", "go">>, stackNice |-> <<"rust">>,
              seniority |-> "Senior", experienceRequired |-> 3]

\* await Job.findById(req.params.id)
FindJobById(id) ==
  CASE id = "j1" -> Resolved(StoredJob)
    [] id = "j2" -> Resolved(NoJob)
    [] OTHER     -> Rejected("Cast to ObjectId failed")

UsernameLists(n) == UNION {[1..k -> {"octo", "hubot"}] : k \in 0..n}

\* { username, error: err.message }
ErrorEntry(username, message) == [username |-> username, error |-> message]

\* { jobId: job.id, username, ...matchData, signals, profile: workProfile }
JobResultDoc(jobId, username, matchData, sig, profile) ==
  [jobId |-> jobId, username |-> username, match |-> matchData,
   signals |-> sig, profile |-> profile]

\* res.json(body), res.status(status).json({ error })
JobResponse(status, body) == [status |-> status, body |-> body]

\* the end of one pass of the loop: the entry is pushed and either the next
\* username is taken or, after the last one, the results are sent
Pushed(q, entry) ==
  LET results == Append(q.results, entry)
  IN  IF q.idx = Len(q.usernames)
        THEN [q EXCEPT !.pc = "done", !.results = results,
                       !.response = JobResponse(200, results)]
        ELSE [q EXCEPT !.pc = "user", !.results = results, !.idx = @ + 1]

\* as Caught, with the error passed on to the handler's outer catch
Caught_Outer(q, message) ==
  [q EXCEPT !.pc = "done", !.failed = @ \cup {q.idx},
            !.response = JobResponse(500, [error |-> message])]

\* lines 67-69: the catch of the loop body
Caught(q, message) ==
  Pushed([q EXCEPT !.failed = @ \cup {q.idx}],
         ErrorEntry(q.usernames[q.idx], message))

InitJobs ==
  /\ AggIdle
  /\ ProfIdle
  /\ ScoreIdle
  /\ RouteIdle
  /\ MockIdle
  /\ jbKey \in BOOLEAN
  /\ jbResults = <<>>
  /\ \E id \in JobIds, usernames \in UsernameLists(MaxUsernames) :
       jbReq = [pc |-> "job", id |-> id, usernames |-> usernames, idx |-> 0,
                job |-> NoJob, profile |-> [login |-> "", created_at |-> 0],
                repos |-> <<>>, signals |-> NoSignals, doc |-> <<>>,
                failed |-> {}, results |-> <<>>, response |-> JobResponse(0, <<>>)]

\* lines 36-46: Job.findById settles, the usernames are read
JobLookup ==
  /\ jbReq.pc = "job"
  /\ LET found == FindJobById(jbReq.id)
     IN  jbReq' =
           IF ~found.ok
             THEN [jbReq EXCEPT !.pc = "done",
                                !.response = JobResponse(500, [error |-> found.message])]
           ELSE IF found.value = NoJob
             THEN [jbReq EXCEPT !.pc = "done",
                                !.response = JobResponse(404, [error |-> "Job not found"])]
           ELSE IF Len(jbReq.usernames) = 0
             THEN [jbReq EXCEPT !.pc = "done", !.job = found.value,
                                !.response = JobResponse(400, [error |-> "No usernames provided"])]
           ELSE [jbReq EXCEPT !.pc = "user", !.job = found.value, !.idx = 1]
  /\ UNCHANGED <<jbKey, jbResults>>
  /\ UNCHANGED <<aggVars, profVars, scoreVars, routeVars, mockVars>>

\* line 49: fetchGitHubUser settles
JobUserSettles ==
  /\ jbReq.pc = "user"
  /\ \E http \in UpstreamStatuses :
       LET res == fetchGitHubUser(http, CHOOSE u \in Users : TRUE)
       IN  jbReq' = IF res.ok
                      THEN [jbReq EXCEPT !.pc = "repos", !.profile = res.value]
                      ELSE Caught(jbReq, res.message)
  /\ UNCHANGED <<jbKey, jbResults>>
  /\ UNCHANGED <<aggVars, profVars, scoreVars, routeVars, mockVars>>

\* line 50: fetchUserRepos settles
JobReposSettle ==
  /\ jbReq.pc = "repos"
  /\ \E http \in UpstreamStatuses :
       LET res == fetchUserRepos(http, ReposOf(HostedKinds(jbReq.usernames[jbReq.idx])))
       IN  jbReq' = IF res.ok
                      THEN [jbReq EXCEPT !.pc = "signals", !.repos = res.value]
                      ELSE Caught(jbReq, res.message)
  /\ UNCHANGED <<jbKey, jbResults>>
  /\ UNCHANGED <<aggVars, profVars, scoreVars, routeVars, mockVars>>

\* line 52: aggregateSignals settles (it rejects when the hosting data make
\* it throw)
JobSignalsSettle ==
  /\ jbReq.pc = "signals"
  /\ \E http \in HttpOutcomes, thrown \in BOOLEAN :
       jbReq' = IF thrown
                  THEN Caught(jbReq, "TypeError")
                  ELSE [jbReq EXCEPT !.pc = "profile",
                          !.signals = aggregateSignals(jbReq.profile, jbReq.repos,
                                        UpstreamOf(HostedKinds(jbReq.usernames[jbReq.idx])),
                                        http, http, AggNow(1))]
  /\ UNCHANGED <<jbKey, jbResults>>
  /\ UNCHANGED <<aggVars, profVars, scoreVars, routeVars, mockVars>>

\* lines 53-63: createWorkabilityProfile settles, scoreCandidate is called
\* and the document is handed to JobResult.create (a throw of the
\* synthesizer or of the scorer is caught)
JobProfileSettles ==
  /\ jbReq.pc = "profile"
  /\ \E outcome \in (IF jbKey THEN RouteRemoteOutcomes ELSE {NotCalled}),
        thrown \in BOOLEAN :
       jbReq' =
         IF thrown
           THEN Caught(jbReq, "TypeError")
           ELSE LET q == jbReq
                    workProfile == createWorkabilityProfile(jbKey, outcome, q.signals).profile
                IN  [q EXCEPT !.pc = "save",
                              !.doc = JobResultDoc(q.job.id, q.usernames[q.idx],
                                                   scoreCandidate(q.signals, q.job),
                                                   q.signals, workProfile)]
  /\ UNCHANGED <<jbKey, jbResults>>
  /\ UNCHANGED <<aggVars, profVars, scoreVars, routeVars, mockVars>>

\* lines 57-65: JobResult.create settles
JobSaveSettles ==
  /\ jbReq.pc = "save"
  /\ \E outcome \in {"ok", "throw"} :
       IF outcome = "ok"
         THEN /\ jbResults' = Append(jbResults, jbReq.doc)
              /\ jbReq' = Pushed(jbReq, jbReq.doc)
         ELSE /\ jbResults' = jbResults
              /\ jbReq' = Caught(jbReq, "JobResult validation failed")
  /\ UNCHANGED jbKey
  /\ UNCHANGED <<aggVars, profVars, scoreVars, routeVars, mockVars>>

NextJobs ==
  \/ JobLookup
  \/ JobUserSettles
  \/ JobReposSettle
  \/ JobSignalsSettle
  \/ JobProfileSettles
  \/ JobSaveSettles

SpecJobs == InitJobs /\ [][NextJobs]_vars

\* the signals aggregateSignals can resolve to for a username on its own
SignalsAlone(username) ==
  {aggregateSignals(CHOOSE u \in Users : TRUE, ReposOf(HostedKinds(username)),
                    UpstreamOf(HostedKinds(username)), http, http, AggNow(1)) :
     http \in HttpOutcomes}

\* the documents the evaluation of a username on its own can create
DocsAlone(username) ==
  UNION {{JobResultDoc(StoredJob.id, username, scoreCandidate(sig, StoredJob), sig,
                       createWorkabilityProfile(jbKey, outcome, sig).profile) :
            outcome \in (IF jbKey THEN RouteRemoteOutcomes ELSE {NotCalled})} :
         sig \in SignalsAlone(username)}

JobFound == FindJobById(jbReq.id).ok /\ FindJobById(jbReq.id).value # NoJob

\* the answer lists one entry per requested username, in request order: an
\* entry of username and error for a username with a failed step, and for
\* every other username the document of its own evaluation
OneEntryPerUsername ==
  /\ jbReq.response.status = 200
  /\ Len(jbReq.response.body) = Len(jbReq.usernames)
  /\ \A k \in 1..Len(jbReq.usernames) :
       LET entry == jbReq.response.body[k]
       IN  /\ entry.username = jbReq.usernames[k]
           /\ k \in jbReq.failed => DOMAIN entry = {"username", "error"}
           /\ k \notin jbReq.failed => entry \in DocsAlone(jbReq.usernames[k])
  /\ jbResults = SelectSeq(jbReq.response.body, LAMBDA e : "error" \notin DOMAIN e)

\* C26 as stated: for every non-empty list of usernames the response of
\* POST /api/jobs/:id/analyze contains exactly one entry per requested
\* username in request order, a failed step for one username giving
\* {username, error} for that username only and leaving the other entries
\* as they are without it.
C26_EntryPerUsername ==
  (jbReq.pc = "done" /\ Len(jbReq.usernames) > 0) => OneEntryPerUsername

\* C26 amended: the same, for a request whose job was found.
C26_EntryPerUsernameOfFoundJob ==
  (jbReq.pc = "done" /\ Len(jbReq.usernames) > 0 /\ JobFound) => OneEntryPerUsername

\* the first username failed, the second one was evaluated and saved
C26_Witness ==
  /\ jbReq.pc = "done"
  /\ JobFound
  /\ jbReq.usernames = <<"hubot", "octo">>
  /\ jbReq.failed = {1}
  /\ jbReq.response.status = 200
  /\ Len(jbResults) = 1
  /\ jbReq.response.body[2] = jbResults[1]
  /\ jbReq.response.body[2].signals.repo_count = 1


=============================================================================
